---- MODULE Spec2Model ----
(***************************************************************************)
(* Model of the Sovereign snap request handler (onRpcRequest) with its     *)
(* two methods, getAddress and signTransaction.                            *)
(*                                                                         *)
(* One request is a JavaScript async call: it runs without interruption    *)
(* from one `await` to the next, so every action below is one such         *)
(* segment.  Requests interleave only at the awaits.  The module-level     *)
(* `wasm` object is shared by all of them.                                 *)
(*                                                                         *)
(* JavaScript objects are functions from key names to values; an absent    *)
(* key is a key outside the DOMAIN.  A JSON scalar is a record             *)
(* [t |-> <typeof>, v |-> <value>].  Strings that are manipulated          *)
(* character by character are sequences of one-character strings.          *)
(***************************************************************************)
EXTENDS Integers, Sequences, FiniteSets, TLC

VARIABLES
    pc,        \* pc[r]: where request r is suspended
    request,   \* request[r]: the JSON-RPC request {method, params}
    loc,       \* loc[r]: the handler's local constants assigned so far
    log,       \* log[r]: the calls request r has made, in order
    response,  \* response[r]: what the caller of request r has received
    wasm,      \* the module-level SovWasm instance
    state,     \* the site component: the value of useState(initialState)
    pending,   \* the site component: the asynchronous operations in flight
    trace,     \* the site component: what its handlers did (fetch, throw)
    gasLimitString,  \* parseGasLimit: its argument
    gasLimit         \* parseGasLimit: its result

\* the variables of the snap handler, of the site component and of the parser
snapVars == <<pc, request, loc, log, response, wasm>>

siteVars == <<state, pending, trace>>

parserVars == <<gasLimitString, gasLimit>>

vars == <<pc, request, loc, log, response, wasm, state, pending, trace,
          gasLimitString, gasLimit>>

(***************************************************************************)
(* Bounds                                                                  *)
(***************************************************************************)
NumReqs == 2

Reqs == 1..NumReqs

(***************************************************************************)
(* JSON values                                                             *)
(***************************************************************************)
Num(n) == [t |-> "number", v |-> n]

Str(n) == [t |-> "string", v |-> n]

Obj(n) == [t |-> "object", v |-> n]

Arr(s) == [t |-> "array", v |-> s]

(***************************************************************************)
(* Request parameters the callers send                                     *)
(***************************************************************************)
KeyIdInputs == {Num(0), Num(1), Num(-1), Str(0)}

GasLimitInputs == {<<>>, <<7>>}

\* the envelope of the snap's test (chain_id 4321, max_fee 10000, nonce 0),
\* with a structured call and gas_limit omitted
TestTransaction ==
    [call |-> Obj(1), chain_id |-> Num(4321), max_priority_fee_bips |-> Num(0),
     max_fee |-> Num(10000), nonce |-> Num(0)]

\* an envelope whose fields all differ from one another
OtherTransaction ==
    [call |-> Obj(2), chain_id |-> Num(1), max_priority_fee_bips |-> Num(5),
     max_fee |-> Num(3000), nonce |-> Num(2)]

ValidTransactions ==
    {TestTransaction, OtherTransaction}
    \cup {[gas_limit |-> Arr(g)] @@ TestTransaction : g \in GasLimitInputs}

\* an envelope with a mistyped field
InvalidTransactions == {[TestTransaction EXCEPT !.chain_id = Str(4321)]}

\* an envelope with a negative amount
NegativeTransactions == {[TestTransaction EXCEPT !.max_fee = Num(-1)]}

\* the envelope as the snap's test and README send it: call is the JSON text
\* of the call, not an object, and gas_limit is empty
StringCallTransactions ==
    {[gas_limit |-> Arr(<<>>)] @@ [TestTransaction EXCEPT !.call = Str(1)]}

TransactionInputs ==
    ValidTransactions \cup InvalidTransactions \cup NegativeTransactions
    \cup StringCallTransactions

\* envelopes that carry a key of the transaction the handler assembles
OverridingTransactions ==
    {[signature |-> Obj(9)] @@ TestTransaction,
     [pub_key |-> Str(9)] @@ TestTransaction,
     [runtime_msg |-> Arr(<<9>>)] @@ TestTransaction}

\* an envelope with a property TransactionStruct does not declare
ExtraPropertyTransactions ==
    {[memo |-> Num(0)] @@ TestTransaction} \cup OverridingTransactions

\* parameters with a property next to the declared ones
ExtraPropertyGetAddressParams == {[keyId |-> Num(0), account |-> Num(0)]}

ExtraPropertySignTransactionParams ==
    {[keyId |-> Num(0), transaction |-> TestTransaction, account |-> Num(0)]}

\* parameters with keyId, and parameters without it
GetAddressParams ==
    {[keyId |-> k] : k \in KeyIdInputs} \cup {[id |-> Num(0)]}
    \cup ExtraPropertyGetAddressParams

SignTransactionParams ==
    {[keyId |-> Num(0), transaction |-> t] :
        t \in TransactionInputs \cup ExtraPropertyTransactions}
    \cup {[keyId |-> Str(0), transaction |-> TestTransaction]}
    \cup ExtraPropertySignTransactionParams

\* Request 1 draws its parameters from every set above.  The requests that
\* run concurrently with it draw theirs from the parameters of the snap's
\* tests, one malformed getAddress and one signTransaction with an undeclared
\* property.
ConcurrentGetAddressParams == {[keyId |-> Num(0)], [keyId |-> Str(0)]}

ConcurrentSignTransactionParams ==
    {[keyId |-> Num(0), transaction |-> t] :
        t \in {TestTransaction, [gas_limit |-> Arr(<<7>>)] @@ TestTransaction}}
    \cup ExtraPropertySignTransactionParams

GetAddressParamsOf(r) ==
    IF r = 1 THEN GetAddressParams ELSE ConcurrentGetAddressParams

SignTransactionParamsOf(r) ==
    IF r = 1 THEN SignTransactionParams ELSE ConcurrentSignTransactionParams

Origins == {"dapp"}

(***************************************************************************)
(* superstruct validation (types.ts)                                       *)
(***************************************************************************)
IsNumber(x) == x.t = "number"

IsObject(x) == x.t = "object"

IsNumberArray(x) == x.t = "array"

\* the type of keyId is not checked
GetAddressStruct_AnyKeyId(p) == "keyId" \in DOMAIN p

\* object({keyId: number()}): unknown properties are rejected
GetAddressStruct_Exact(p) ==
    /\ DOMAIN p = {"keyId"}
    /\ IsNumber(p.keyId)

\* type({keyId: number()}): unknown properties are allowed
GetAddressStruct(p) ==
    /\ "keyId" \in DOMAIN p
    /\ IsNumber(p.keyId)

TransactionKeys ==
    {"call", "chain_id", "max_priority_fee_bips", "max_fee", "gas_limit", "nonce"}

\* gas_limit: array(number()) without optional()
TransactionStruct_GasRequired(t) ==
    /\ DOMAIN t = TransactionKeys
    /\ IsObject(t.call)
    /\ IsNumber(t.chain_id)
    /\ IsNumber(t.max_priority_fee_bips)
    /\ IsNumber(t.max_fee)
    /\ IsNumberArray(t.gas_limit)
    /\ IsNumber(t.nonce)

\* type({...}) instead of object({...}): unknown properties are allowed
TransactionStruct_AllowsUnknown(t) ==
    /\ TransactionKeys \ {"gas_limit"} \subseteq DOMAIN t
    /\ IsObject(t.call)
    /\ IsNumber(t.chain_id)
    /\ IsNumber(t.max_priority_fee_bips)
    /\ IsNumber(t.max_fee)
    /\ "gas_limit" \in DOMAIN t => IsNumberArray(t.gas_limit)
    /\ IsNumber(t.nonce)

\* call: any() instead of object()
TransactionStruct_CallAny(t) ==
    /\ DOMAIN t \subseteq TransactionKeys
    /\ TransactionKeys \ {"gas_limit"} \subseteq DOMAIN t
    /\ IsNumber(t.chain_id)
    /\ IsNumber(t.max_priority_fee_bips)
    /\ IsNumber(t.max_fee)
    /\ "gas_limit" \in DOMAIN t => IsNumberArray(t.gas_limit)
    /\ IsNumber(t.nonce)

\* object({...}): unknown properties are rejected, gas_limit is optional
TransactionStruct(t) ==
    /\ DOMAIN t \subseteq TransactionKeys
    /\ TransactionKeys \ {"gas_limit"} \subseteq DOMAIN t
    /\ IsObject(t.call)
    /\ IsNumber(t.chain_id)
    /\ IsNumber(t.max_priority_fee_bips)
    /\ IsNumber(t.max_fee)
    /\ "gas_limit" \in DOMAIN t => IsNumberArray(t.gas_limit)
    /\ IsNumber(t.nonce)

SignTransactionStruct(p) ==
    /\ DOMAIN p = {"transaction", "keyId"}
    /\ TransactionStruct(p.transaction)
    /\ IsNumber(p.keyId)

(***************************************************************************)
(* Helpers of the handler                                                  *)
(***************************************************************************)
\* the last segment is the account 0 whatever the keyId
getKeypairParams_FixedAccount(keyId) ==
    [path |-> <<"m", "44'", "1551'", <<0, "'">> >>,
     compressed |-> TRUE,
     curve |-> "ed25519"]

getKeypairParams(keyId) ==
    [path |-> <<"m", "44'", "1551'", <<keyId, "'">> >>,
     compressed |-> TRUE,
     curve |-> "ed25519"]

\* remove0x of @metamask/utils: drops a leading 0x or 0X
remove0x(s) ==
    IF Len(s) >= 2 /\ s[1] = "0" /\ s[2] \in {"x", "X"}
    THEN SubSeq(s, 3, Len(s))
    ELSE s

\* String.prototype.slice(2)
slice2(s) == SubSeq(s, 3, Len(s))

\* the flag byte is not sliced off
cleanPublicKeyResponse_KeepsFlag(metamaskPublicKeyResponse) ==
    remove0x(metamaskPublicKeyResponse)

cleanPublicKeyResponse(metamaskPublicKeyResponse) ==
    slice2(remove0x(metamaskPublicKeyResponse))

\* omits nothing: the key named is not the key dropped
omitKey_KeepsAll(key, obj) == obj

omitKey(key, obj) == [k \in (DOMAIN obj) \ {key} |-> obj[k]]

\* {...a, ...b}: the keys of b win
Spread(a, b) == b @@ a

(***************************************************************************)
(* The collaborators: the custody gateway (snap.request), the codec (wasm) *)
(* and the signer (@noble/ed25519)                                         *)
(***************************************************************************)
KeyDigit(keyId) == IF keyId = 0 THEN "a" ELSE IF keyId = 1 THEN "b" ELSE "c"

\* the raw public key of a path: 0x, a one-byte flag prefix, the key
RawPublicKey(params) ==
    <<"0", "x", "0", "0", "e", KeyDigit(params.path[4][1])>>

RawPrivateKey(params) ==
    <<"0", "x", "5", KeyDigit(params.path[4][1])>>

\* snap_getBip32PublicKey
GetBip32PublicKey(params) == RawPublicKey(params)

\* snap_getBip32Entropy: the JSON form of the key-pair node of the path
GetBip32Entropy(params) ==
    [curve |-> params.curve, depth |-> Len(params.path) - 1,
     publicKey |-> RawPublicKey(params), privateKey |-> RawPrivateKey(params)]

SLIP10NodeFromJSON(entropy) ==
    [publicKey |-> entropy.publicKey, privateKey |-> entropy.privateKey]

bechEncodePublicKey(publicKey) == <<"sov1", publicKey>>

serializeCall(call) == <<"call", call.v>>

serializeUnsignedTransaction(unsignedTransaction) ==
    <<"unsigned", unsignedTransaction>>

sign(message, privateKey) == <<"sig", message, privateKey>>

serializeTransaction(signedTransaction) == <<"tx", signedTransaction>>

bytesToHex(bytes) == <<"0x", bytes>>

(***************************************************************************)
(* The log of a request                                                    *)
(***************************************************************************)
\* request r invoked op with argument arg
Call(op, arg) == [op |-> op, arg |-> arg]

\* the call just invoked raised an error of this kind
Raise(kind) == [op |-> "raise", arg |-> kind]

Ops(l) == [i \in 1..Len(l) |-> l[i].op]

Count(l, op) == Cardinality({i \in 1..Len(l) : l[i].op = op})

NoResponse == [kind |-> "none", error |-> "none"]

ErrorResponse(kind) == [kind |-> "error", error |-> kind]

ResultResponse(value) == [kind |-> "result", error |-> "none", value |-> value]

(***************************************************************************)
(* The module-level codec object: const wasm = new SovWasm()               *)
(***************************************************************************)
\* a codec call of request r leaves buffers of r in the instance
Alloc(w, r) == [w EXCEPT !.allocated = @ \cup {r}]

\* wasm.dealloc() frees every buffer of the instance
Dealloc(w) == [w EXCEPT !.allocated = {}]

(***************************************************************************)
(* The site: strings, parseInt and parseGasLimit                           *)
(*                                                                         *)
(* A string the code takes apart is a sequence of one-character strings.   *)
(***************************************************************************)
MaxLen == 4

\* the characters typed into the gas limit field
Chars == {"1", "7", "-", "x", ",", " "}

Digits == <<"0", "1", "2", "3", "4", "5", "6", "7", "8", "9">>

IsDigit(c) == \E i \in 1..10 : Digits[i] = c

DigitValue(c) == (CHOOSE i \in 1..10 : Digits[i] = c) - 1

\* every string over Chars of length n
RECURSIVE StringsOfLen(_)
StringsOfLen(n) ==
    IF n = 0 THEN {<<>>}
    ELSE {Append(t, c) : t \in StringsOfLen(n - 1), c \in Chars}

GasLimitStrings == UNION {StringsOfLen(n) : n \in 0..MaxLen}

\* String.prototype.trim (the only white space typed is the blank)
RECURSIVE trim(_)
trim(str) ==
    IF str = <<>> THEN <<>>
    ELSE IF Head(str) = " " THEN trim(Tail(str))
    ELSE IF str[Len(str)] = " " THEN trim(SubSeq(str, 1, Len(str) - 1))
    ELSE str

\* String.prototype.split(','): the pieces between the commas
RECURSIVE split(_)
split(str) ==
    IF \A i \in 1..Len(str) : str[i] # ","
    THEN <<str>>
    ELSE LET i == CHOOSE i \in 1..Len(str) :
                      str[i] = "," /\ \A j \in 1..(i - 1) : str[j] # ","
         IN  <<SubSeq(str, 1, i - 1)>> \o split(SubSeq(str, i + 1, Len(str)))

\* the value of the longest prefix of str made of digits, acc the value so far
RECURSIVE DigitPrefix(_, _)
DigitPrefix(str, acc) ==
    IF str = <<>> \/ ~IsDigit(Head(str)) THEN acc
    ELSE DigitPrefix(Tail(str), 10 * acc + DigitValue(Head(str)))

\* the value of a JavaScript number that is not a number
NaN == [isNaN |-> TRUE, value |-> 0]

Number(n) == [isNaN |-> FALSE, value |-> n]

\* parseInt(item, 10): white space and a sign are skipped, the digits that
\* follow are read up to the first character that is not one; NaN when there
\* is no digit to read
parseInt(item) ==
    LET t == trim(item)
        signed == t # <<>> /\ Head(t) \in {"-", "+"}
        body == IF signed THEN Tail(t) ELSE t
    IN  IF body = <<>> \/ ~IsDigit(Head(body)) THEN NaN
        ELSE IF signed /\ Head(t) = "-" THEN Number(0 - DigitPrefix(body, 0))
        ELSE Number(DigitPrefix(body, 0))

\* .map(item => item.trim())
MapTrim(items) == [i \in 1..Len(items) |-> trim(items[i])]

\* .map(item => parseInt(item, 10))
MapParseInt(items) == [i \in 1..Len(items) |-> parseInt(items[i])]

\* the numbers that are left after the last filter
Values(numbers) == [i \in 1..Len(numbers) |-> numbers[i].value]

NotEmpty(item) == item # <<>>

\* the result of parseGasLimit: undefined, or an array of numbers
Undefined == [defined |-> FALSE, items |-> <<>>]

Array(items) == [defined |-> TRUE, items |-> items]

\* the last filter keeps every number that is not NaN
parseGasLimit_KeepsNegatives(str) ==
    IF trim(str) = <<>> THEN Undefined
    ELSE LET IsNumeric(number) == ~number.isNaN
         IN  Array(Values(
                 SelectSeq(MapParseInt(SelectSeq(MapTrim(split(str)), NotEmpty)),
                           IsNumeric)))

parseGasLimit(str) ==
    IF trim(str) = <<>> THEN Undefined
    ELSE LET IsValid(number) == ~number.isNaN /\ number.value >= 0
         IN  Array(Values(
                 SelectSeq(MapParseInt(SelectSeq(MapTrim(split(str)), NotEmpty)),
                           IsValid)))

(***************************************************************************)
(* The site component (Sovereign): its state and its input fields          *)
(*                                                                         *)
(* Every handler is a closure of the render it belongs to: `state` in it   *)
(* is the state of that render.  The component renders after every         *)
(* setState, so a handler the user triggers reads the current state, while *)
(* the code after an await still reads the state of the render in which    *)
(* the operation was started.                                              *)
(***************************************************************************)
MaxSteps == 4

SequencerUrl == "http://localhost:12346/sequencer/"

\* keyId, chainId, maxPriorityFee, maxFee, gasLimit, nonce, callMessage,
\* sequencer and status; address and tx are absent until they are set
initialState ==
    [keyId |-> Number(0), chainId |-> Number(0), maxPriorityFee |-> Number(0),
     maxFee |-> Number(3000), gasLimit |-> Undefined, nonce |-> Number(0),
     callMessage |-> "json", sequencer |-> SequencerUrl, status |-> ""]

\* what the user types into a numeric field: nothing (the field cleared),
\* digits, something else
NumberTexts == {<<>>, <<"7">>, <<"-", "1">>}

GasLimitTexts == {<<>>, <<"7">>}

\* a text that JSON.parse accepts and one it rejects
CallMessageTexts == {"json", "not json"}

SequencerTexts == {"", SequencerUrl}

\* /^[0-9\b]+$/u: one or more characters, each a digit or a backspace
regexTest(value) ==
    /\ value # <<>>
    /\ \A i \in 1..Len(value) : IsDigit(value[i]) \/ value[i] = "\\b"

\* setState({...state, [key]: value}) in a closure whose state is snapshot
SetState(snapshot, key, value) ==
    state' = Spread(snapshot, [k \in {key} |-> value])

\* the user did one more thing: an edit or a click
Step == trace' = [trace EXCEPT !.steps = @ + 1]

CanStep == trace.steps < MaxSteps

\* onChange of the Key ID input: nothing for the empty text, then the regex
EditKeyId(value) ==
    /\ CanStep
    /\ IF value = <<>>
       THEN UNCHANGED state
       ELSE IF value = <<>> \/ regexTest(value)
            THEN SetState(state, "keyId", parseInt(value))
            ELSE UNCHANGED state
    /\ Step
    /\ UNCHANGED <<pending, snapVars, parserVars>>

\* onChange of the Nonce, Chain Id, Max Priority Fee and Max Fee inputs
EditNumber(key, value) ==
    /\ CanStep
    /\ IF value = <<>> \/ regexTest(value)
       THEN SetState(state, key, parseInt(value))
       ELSE UNCHANGED state
    /\ Step
    /\ UNCHANGED <<pending, snapVars, parserVars>>

EditNonce(value) == EditNumber("nonce", value)

EditChainId(value) == EditNumber("chainId", value)

EditMaxPriorityFee(value) == EditNumber("maxPriorityFee", value)

EditMaxFee(value) == EditNumber("maxFee", value)

\* onChange of the Gas Limit input
EditGasLimit(value) ==
    /\ CanStep
    /\ SetState(state, "gasLimit", parseGasLimit(value))
    /\ Step
    /\ UNCHANGED <<pending, snapVars, parserVars>>

\* onChange of the Call message textarea
EditCallMessage(value) ==
    /\ CanStep
    /\ SetState(state, "callMessage", value)
    /\ Step
    /\ UNCHANGED <<pending, snapVars, parserVars>>

\* onChange of the Sequencer input
EditSequencer(value) ==
    /\ CanStep
    /\ SetState(state, "sequencer", value)
    /\ Step
    /\ UNCHANGED <<pending, snapVars, parserVars>>

(***************************************************************************)
(* The site component: its asynchronous operations                         *)
(***************************************************************************)
\* !state[key]: the key is undefined or the empty string
Falsy(snapshot, key) == key \notin DOMAIN snapshot \/ snapshot[key] = ""

\* an operation in flight: the click that started it (two clicks start two
\* operations), and the state of the render that click happened in
Operation(kind, endpoint, stage, snapshot) ==
    [id |-> trace.steps + 1, kind |-> kind, endpoint |-> endpoint, stage |-> stage,
     state |-> snapshot]

\* what a click on a submit button did
SubmitEvent(endpoint, snapshot, outcome) ==
    [endpoint |-> endpoint,
     tx |-> IF "tx" \in DOMAIN snapshot THEN snapshot.tx ELSE "undefined",
     sequencer |-> snapshot.sequencer,
     outcome |-> outcome]

\* what window.ethereum.request resolves to for signTransaction
SignResponses == {"0xsigned", "null"}

\* SignButton onClick up to `await window.ethereum.request(request)`
ClickSign ==
    /\ CanStep
    /\ IF state.callMessage = "json"
       THEN /\ pending' = pending \cup {Operation("sign", "none", "request", state)}
            /\ UNCHANGED state
       ELSE /\ SetState(state, "status", "Unexpected token")
            /\ UNCHANGED pending
    /\ Step
    /\ UNCHANGED <<snapVars, parserVars>>

\* the request resolves: setState({...state, tx: response ?? ''})
SignResolves(o) ==
    /\ o \in pending /\ o.kind = "sign"
    /\ \E res \in SignResponses :
          SetState(o.state, "tx", IF res = "null" THEN "" ELSE res)
    /\ pending' = pending \ {o}
    /\ UNCHANGED <<trace, snapVars, parserVars>>

\* the request rejects: setState({...state, status: er.message})
SignRejects(o) ==
    /\ o \in pending /\ o.kind = "sign"
    /\ SetState(o.state, "status", "User rejected the request.")
    /\ pending' = pending \ {o}
    /\ UNCHANGED <<trace, snapVars, parserVars>>

\* getAddress of the site up to window.ethereum.request(addressRequest)
ClickGetAddress ==
    /\ CanStep
    /\ pending' = pending \cup {Operation("getAddress", "none", "request", state)}
    /\ Step
    /\ UNCHANGED <<state, snapVars, parserVars>>

\* .then((res) => setState({...state, address: res}))
GetAddressResolves(o) ==
    /\ o \in pending /\ o.kind = "getAddress"
    /\ SetState(o.state, "address", "sov1address")
    /\ pending' = pending \ {o}
    /\ UNCHANGED <<trace, snapVars, parserVars>>

\* the promise rejects and nothing handles it
GetAddressRejects(o) ==
    /\ o \in pending /\ o.kind = "getAddress"
    /\ pending' = pending \ {o}
    /\ UNCHANGED <<state, trace, snapVars, parserVars>>

\* the click handler has no check of state.tx
ClickSubmit_NoTxCheck(endpoint) ==
    /\ CanStep
    /\ IF Falsy(state, "sequencer")
       THEN /\ SetState(state, "status", "Sequencer URL field is empty")
            /\ trace' = [steps |-> trace.steps + 1,
                         events |-> Append(trace.events,
                                           SubmitEvent(endpoint, state, "status"))]
            /\ UNCHANGED pending
       ELSE /\ pending' = pending \cup {Operation("submit", endpoint, "fetch", state)}
            /\ trace' = [steps |-> trace.steps + 1,
                         events |-> Append(trace.events,
                                           SubmitEvent(endpoint, state, "fetch"))]
            /\ UNCHANGED state
    /\ UNCHANGED <<snapVars, parserVars>>

\* SubmitButton onClick and submitSequencer up to `await fetch(...)`
ClickSubmit(endpoint) ==
    /\ CanStep
    /\ IF Falsy(state, "tx")
       THEN /\ trace' = [steps |-> trace.steps + 1,
                         events |-> Append(trace.events,
                                           SubmitEvent(endpoint, state, "throw"))]
            /\ UNCHANGED <<state, pending>>
       ELSE IF Falsy(state, "sequencer")
       THEN /\ SetState(state, "status", "Sequencer URL field is empty")
            /\ trace' = [steps |-> trace.steps + 1,
                         events |-> Append(trace.events,
                                           SubmitEvent(endpoint, state, "status"))]
            /\ UNCHANGED pending
       ELSE /\ pending' = pending \cup {Operation("submit", endpoint, "fetch", state)}
            /\ trace' = [steps |-> trace.steps + 1,
                         events |-> Append(trace.events,
                                           SubmitEvent(endpoint, state, "fetch"))]
            /\ UNCHANGED state
    /\ UNCHANGED <<snapVars, parserVars>>

ClickSubmitTx == ClickSubmit("txs")

ClickSubmitBatch == ClickSubmit("batches")

\* fetch resolves with response.ok: `await response.json()`
SubmitFetchResolves(o) ==
    /\ o \in pending /\ o.kind = "submit" /\ o.stage = "fetch"
    /\ pending' = (pending \ {o}) \cup {[o EXCEPT !.stage = "json"]}
    /\ UNCHANGED <<state, trace, snapVars, parserVars>>

\* fetch rejects, response.ok is false or response.json() rejects: the catch
\* block stores er.message in status
SubmitFails(o) ==
    /\ o \in pending /\ o.kind = "submit"
    /\ SetState(o.state, "status", "Sequencer response was not ok")
    /\ pending' = pending \ {o}
    /\ UNCHANGED <<trace, snapVars, parserVars>>

\* response.json() resolves: setState({...state, status: responseData})
SubmitJsonResolves(o) ==
    /\ o \in pending /\ o.kind = "submit" /\ o.stage = "json"
    /\ SetState(o.state, "status", "accepted")
    /\ pending' = pending \ {o}
    /\ UNCHANGED <<trace, snapVars, parserVars>>

\* no request has arrived at the snap
SnapInit ==
    /\ pc = [r \in Reqs |-> "idle"]
    /\ request = [r \in Reqs |-> [method |-> "none"]]
    /\ loc = [r \in Reqs |-> [origin |-> "none"]]
    /\ log = [r \in Reqs |-> <<>>]
    /\ response = [r \in Reqs |-> NoResponse]
    /\ wasm = [allocated |-> {}]

\* the site component after its first render
SiteInit ==
    /\ state = initialState
    /\ pending = {}
    /\ trace = [steps |-> 0, events |-> <<>>]

\* a call of parseGasLimit that has not returned, and one that returned value
NotReturned == [returned |-> FALSE, value |-> Undefined]

Returned(value) == [returned |-> TRUE, value |-> value]

\* parseGasLimit has not been called
ParserInit ==
    /\ gasLimitString = <<>>
    /\ gasLimit = NotReturned

Init == SnapInit /\ SiteInit /\ ParserInit

(***************************************************************************)
(* case 'getAddress'                                                       *)
(***************************************************************************)
\* the public key is taken from the key-pair entropy, as in signTransaction
GetAddressStart_FetchesEntropy(r) ==
    /\ pc[r] = "idle"
    /\ \E params \in GetAddressParamsOf(r), origin \in Origins :
        /\ request' = [request EXCEPT ![r] =
                          [method |-> "getAddress", params |-> params]]
        /\ IF ~GetAddressStruct(params)
           THEN /\ log' = [log EXCEPT ![r] =
                              <<Call("validate", params), Raise("ValidationError"),
                                Call("throw", "ValidationError")>>]
                /\ response' = [response EXCEPT ![r] = ErrorResponse("ValidationError")]
                /\ pc' = [pc EXCEPT ![r] = "done"]
                /\ loc' = [loc EXCEPT ![r] = [origin |-> origin]]
           ELSE LET keyId == params.keyId.v
                    keypairParams == getKeypairParams(keyId)
                IN  /\ log' = [log EXCEPT ![r] =
                                  <<Call("validate", params),
                                    Call("getKeypairParams", keyId),
                                    Call("snap_getBip32Entropy", keypairParams)>>]
                    /\ loc' = [loc EXCEPT ![r] =
                                  [origin |-> origin, keyId |-> keyId,
                                   keypairParams |-> keypairParams]]
                    /\ pc' = [pc EXCEPT ![r] = "awaitPublicKey"]
                    /\ UNCHANGED response
    /\ UNCHANGED wasm
    /\ UNCHANGED <<siteVars, parserVars>>

\* from the call of the handler to `await snap.request(publicKeyRequest)`
GetAddressStart(r) ==
    /\ pc[r] = "idle"
    /\ \E params \in GetAddressParamsOf(r), origin \in Origins :
        /\ request' = [request EXCEPT ![r] =
                          [method |-> "getAddress", params |-> params]]
        /\ IF ~GetAddressStruct(params)
           THEN /\ log' = [log EXCEPT ![r] =
                              <<Call("validate", params), Raise("ValidationError"),
                                Call("throw", "ValidationError")>>]
                /\ response' = [response EXCEPT ![r] = ErrorResponse("ValidationError")]
                /\ pc' = [pc EXCEPT ![r] = "done"]
                /\ loc' = [loc EXCEPT ![r] = [origin |-> origin]]
           ELSE LET keyId == params.keyId.v
                    keypairParams == getKeypairParams(keyId)
                IN  /\ log' = [log EXCEPT ![r] =
                                  <<Call("validate", params),
                                    Call("getKeypairParams", keyId),
                                    Call("snap_getBip32PublicKey", keypairParams)>>]
                    /\ loc' = [loc EXCEPT ![r] =
                                  [origin |-> origin, keyId |-> keyId,
                                   keypairParams |-> keypairParams]]
                    /\ pc' = [pc EXCEPT ![r] = "awaitPublicKey"]
                    /\ UNCHANGED response
    /\ UNCHANGED wasm
    /\ UNCHANGED <<siteVars, parserVars>>

\* a catch block that rethrows without wasm.dealloc()
GetAddressCatch_NoDealloc(r, pre, er, w) ==
    /\ log' = [log EXCEPT ![r] = @ \o pre \o <<Raise(er), Call("throw", er)>>]
    /\ wasm' = w
    /\ response' = [response EXCEPT ![r] = ErrorResponse(er)]
    /\ pc' = [pc EXCEPT ![r] = "done"]

\* the catch block of getAddress: console.error, wasm.dealloc(), throw er
GetAddressCatch(r, pre, er, w) ==
    /\ log' = [log EXCEPT ![r] =
                  @ \o pre \o <<Raise(er), Call("dealloc", 0), Call("throw", er)>>]
    /\ wasm' = Dealloc(w)
    /\ response' = [response EXCEPT ![r] = ErrorResponse(er)]
    /\ pc' = [pc EXCEPT ![r] = "done"]

\* the failed custody call is caught and issued again
GetAddressPublicKeyFails_Retries(r) ==
    /\ pc[r] = "awaitPublicKey"
    /\ Count(log[r], "snap_getBip32PublicKey") < 2
    /\ log' = [log EXCEPT ![r] =
                  @ \o <<Raise("DerivationError"),
                         Call("snap_getBip32PublicKey", loc[r].keypairParams)>>]
    /\ UNCHANGED <<pc, request, loc, response, wasm>>
    /\ UNCHANGED <<siteVars, parserVars>>

\* the failure of the custody call is noticed only after the (absent) key was
\* handed to the address encoder
GetAddressPublicKeyFails_EncodesAnyway(r) ==
    /\ pc[r] = "awaitPublicKey"
    /\ log' = [log EXCEPT ![r] =
                  @ \o <<Raise("DerivationError"), Call("bechEncodePublicKey", <<>>),
                         Call("dealloc", 0), Call("throw", "DerivationError")>>]
    /\ wasm' = Dealloc(Alloc(wasm, r))
    /\ response' = [response EXCEPT ![r] = ErrorResponse("DerivationError")]
    /\ pc' = [pc EXCEPT ![r] = "done"]
    /\ UNCHANGED <<request, loc>>
    /\ UNCHANGED <<siteVars, parserVars>>

\* the custody gateway fails to answer snap_getBip32PublicKey
GetAddressPublicKeyFails(r) ==
    /\ pc[r] = "awaitPublicKey"
    /\ GetAddressCatch(r, <<>>, "DerivationError", wasm)
    /\ UNCHANGED <<request, loc>>
    /\ UNCHANGED <<siteVars, parserVars>>

\* the public key arrives but wasm.bechEncodePublicKey throws
GetAddressEncodeFails(r) ==
    /\ pc[r] = "awaitPublicKey"
    /\ LET publicKeyResponse == GetBip32PublicKey(loc[r].keypairParams)
           publicKey == cleanPublicKeyResponse(publicKeyResponse)
       IN  /\ GetAddressCatch(r, <<Call("bechEncodePublicKey", publicKey)>>,
                              "EncodingError", Alloc(wasm, r))
           /\ loc' = [loc EXCEPT ![r] = [publicKey |-> publicKey] @@ @]
    /\ UNCHANGED request
    /\ UNCHANGED <<siteVars, parserVars>>

\* no dealloc on the success path, and the encoder answers from the buffers
\* an earlier request left in the instance
GetAddressFinish_ReusesBuffer(r) ==
    /\ pc[r] = "awaitPublicKey"
    /\ LET publicKeyResponse == GetBip32PublicKey(loc[r].keypairParams)
           publicKey == cleanPublicKeyResponse(publicKeyResponse)
           address == IF wasm.allocated = {}
                      THEN bechEncodePublicKey(publicKey)
                      ELSE bechEncodePublicKey(<<>>)
       IN  /\ log' = [log EXCEPT ![r] =
                         @ \o <<Call("bechEncodePublicKey", publicKey),
                                Call("return", address)>>]
           /\ loc' = [loc EXCEPT ![r] =
                         [publicKey |-> publicKey, address |-> address] @@ @]
           /\ wasm' = Alloc(wasm, r)
           /\ response' = [response EXCEPT ![r] = ResultResponse(address)]
           /\ pc' = [pc EXCEPT ![r] = "done"]
    /\ UNCHANGED request
    /\ UNCHANGED <<siteVars, parserVars>>

\* the public key arrives: clean it, encode it, dealloc, return the address
GetAddressFinish(r) ==
    /\ pc[r] = "awaitPublicKey"
    /\ LET publicKeyResponse == GetBip32PublicKey(loc[r].keypairParams)
           publicKey == cleanPublicKeyResponse(publicKeyResponse)
           address == bechEncodePublicKey(publicKey)
       IN  /\ log' = [log EXCEPT ![r] =
                         @ \o <<Call("bechEncodePublicKey", publicKey),
                                Call("dealloc", 0), Call("return", address)>>]
           /\ loc' = [loc EXCEPT ![r] =
                         [publicKey |-> publicKey, address |-> address] @@ @]
           /\ wasm' = Dealloc(Alloc(wasm, r))
           /\ response' = [response EXCEPT ![r] = ResultResponse(address)]
           /\ pc' = [pc EXCEPT ![r] = "done"]
    /\ UNCHANGED request
    /\ UNCHANGED <<siteVars, parserVars>>

(***************************************************************************)
(* case 'signTransaction'                                                  *)
(***************************************************************************)
\* Number.prototype.toString and JSON.stringify give the text of a value
ToText(x) == [t |-> "string", v |-> x.v]

\* transaction.gas_limit ? transaction.gas_limit.join(', ') : 'Not Set'
GasLimitText(transaction) ==
    IF "gas_limit" \in DOMAIN transaction
    THEN [text |-> "joined", items |-> transaction.gas_limit.v]
    ELSE [text |-> "Not Set", items |-> <<>>]

\* the panel of the confirmation dialog
DialogContent(origin, transaction, address) ==
    [origin |-> origin,
     call |-> ToText(transaction.call),
     address |-> address,
     nonce |-> ToText(transaction.nonce),
     chainId |-> ToText(transaction.chain_id),
     maxPriorityFeeBips |-> ToText(transaction.max_priority_fee_bips),
     maxFee |-> ToText(transaction.max_fee),
     gasLimit |-> GasLimitText(transaction)]

\* {...omitKey("call", transaction), runtime_msg}
UnsignedTransaction(transaction, runtime_msg) ==
    Spread(omitKey("call", transaction), [runtime_msg |-> runtime_msg])

\* only runtime_msg is copied from the unsigned transaction
SignedTransaction_DropsEnvelope(sig, publicKey, unsignedTransaction) ==
    [signature |-> [msg_sig |-> sig], pub_key |-> publicKey,
     runtime_msg |-> unsignedTransaction.runtime_msg]

\* {"signature": {"msg_sig": sig}, "pub_key": publicKey, ...unsignedTransaction}
SignedTransaction(sig, publicKey, unsignedTransaction) ==
    Spread([signature |-> [msg_sig |-> sig], pub_key |-> publicKey],
           unsignedTransaction)

\* from the call of the handler to `await snap.request(snap_getBip32Entropy)`
SignStart(r) ==
    /\ pc[r] = "idle"
    /\ \E params \in SignTransactionParamsOf(r), origin \in Origins :
        /\ request' = [request EXCEPT ![r] =
                          [method |-> "signTransaction", params |-> params]]
        /\ IF ~SignTransactionStruct(params)
           THEN /\ log' = [log EXCEPT ![r] =
                              <<Call("validate", params), Raise("ValidationError"),
                                Call("throw", "ValidationError")>>]
                /\ response' = [response EXCEPT ![r] = ErrorResponse("ValidationError")]
                /\ pc' = [pc EXCEPT ![r] = "done"]
                /\ loc' = [loc EXCEPT ![r] = [origin |-> origin]]
           ELSE LET keyId == params.keyId.v
                    keypairParams == getKeypairParams(keyId)
                IN  /\ log' = [log EXCEPT ![r] =
                                  <<Call("validate", params),
                                    Call("getKeypairParams", keyId),
                                    Call("snap_getBip32Entropy", keypairParams)>>]
                    /\ loc' = [loc EXCEPT ![r] =
                                  [origin |-> origin, keyId |-> keyId,
                                   transaction |-> params.transaction,
                                   keypairParams |-> keypairParams]]
                    /\ pc' = [pc EXCEPT ![r] = "awaitEntropy"]
                    /\ UNCHANGED response
    /\ UNCHANGED wasm
    /\ UNCHANGED <<siteVars, parserVars>>

\* a catch block that swallows the error and returns what it has
SignCatch_ReturnsPartial(r, pre, er, w) ==
    /\ log' = [log EXCEPT ![r] =
                  @ \o pre \o <<Raise(er), Call("dealloc", 0), Call("return", <<"0x">>)>>]
    /\ wasm' = Dealloc(w)
    /\ response' = [response EXCEPT ![r] = ResultResponse(<<"0x">>)]
    /\ pc' = [pc EXCEPT ![r] = "done"]

\* the catch block of signTransaction: wasm.dealloc(), console.error, throw er
SignCatch(r, pre, er, w) ==
    /\ log' = [log EXCEPT ![r] =
                  @ \o pre \o <<Raise(er), Call("dealloc", 0), Call("throw", er)>>]
    /\ wasm' = Dealloc(w)
    /\ response' = [response EXCEPT ![r] = ErrorResponse(er)]
    /\ pc' = [pc EXCEPT ![r] = "done"]

\* the custody gateway fails to answer snap_getBip32Entropy
SignEntropyFails(r) ==
    /\ pc[r] = "awaitEntropy"
    /\ SignCatch(r, <<>>, "DerivationError", wasm)
    /\ UNCHANGED <<request, loc>>
    /\ UNCHANGED <<siteVars, parserVars>>

\* the entropy arrives: `await SLIP10Node.fromJSON(entropy)`
SignEntropyArrives(r) ==
    /\ pc[r] = "awaitEntropy"
    /\ LET entropy == GetBip32Entropy(loc[r].keypairParams)
       IN  /\ loc' = [loc EXCEPT ![r] = [entropy |-> entropy] @@ @]
           /\ log' = [log EXCEPT ![r] = Append(@, Call("SLIP10Node.fromJSON", entropy))]
    /\ pc' = [pc EXCEPT ![r] = "awaitNode"]
    /\ UNCHANGED <<request, response, wasm>>
    /\ UNCHANGED <<siteVars, parserVars>>

\* SLIP10Node.fromJSON rejects, or assert(node.privateKey) fails
SignNodeFails(r) ==
    /\ pc[r] = "awaitNode"
    /\ SignCatch(r, <<>>, "DerivationError", wasm)
    /\ UNCHANGED <<request, loc>>
    /\ UNCHANGED <<siteVars, parserVars>>

\* the node is built but wasm.bechEncodePublicKey throws
SignEncodeAddressFails(r) ==
    /\ pc[r] = "awaitNode"
    /\ LET node == SLIP10NodeFromJSON(loc[r].entropy)
           publicKey == cleanPublicKeyResponse(node.publicKey)
       IN  /\ SignCatch(r, <<Call("bechEncodePublicKey", publicKey)>>,
                        "EncodingError", Alloc(wasm, r))
           /\ loc' = [loc EXCEPT ![r] = [node |-> node, publicKey |-> publicKey] @@ @]
    /\ UNCHANGED request
    /\ UNCHANGED <<siteVars, parserVars>>

\* the public key of the node is taken to carry no flag byte
SignShowDialog_KeepsFlagByte(r) ==
    /\ pc[r] = "awaitNode"
    /\ LET node == SLIP10NodeFromJSON(loc[r].entropy)
           publicKey == remove0x(node.publicKey)
           address == bechEncodePublicKey(publicKey)
           content == DialogContent(loc[r].origin, loc[r].transaction, address)
       IN  /\ loc' = [loc EXCEPT ![r] =
                         [node |-> node, publicKey |-> publicKey,
                          address |-> address] @@ @]
           /\ log' = [log EXCEPT ![r] =
                         @ \o <<Call("bechEncodePublicKey", publicKey),
                                Call("snap_dialog", content)>>]
    /\ wasm' = Alloc(wasm, r)
    /\ pc' = [pc EXCEPT ![r] = "awaitDialog"]
    /\ UNCHANGED <<request, response>>
    /\ UNCHANGED <<siteVars, parserVars>>

\* the codec is released before the handler waits for the operator
SignShowDialog_ReleasesWhileWaiting(r) ==
    /\ pc[r] = "awaitNode"
    /\ LET node == SLIP10NodeFromJSON(loc[r].entropy)
           publicKey == cleanPublicKeyResponse(node.publicKey)
           address == bechEncodePublicKey(publicKey)
           content == DialogContent(loc[r].origin, loc[r].transaction, address)
       IN  /\ loc' = [loc EXCEPT ![r] =
                         [node |-> node, publicKey |-> publicKey,
                          address |-> address] @@ @]
           /\ log' = [log EXCEPT ![r] =
                         @ \o <<Call("bechEncodePublicKey", publicKey),
                                Call("dealloc", 0),
                                Call("snap_dialog", content)>>]
    /\ wasm' = Dealloc(Alloc(wasm, r))
    /\ pc' = [pc EXCEPT ![r] = "awaitDialog"]
    /\ UNCHANGED <<request, response>>
    /\ UNCHANGED <<siteVars, parserVars>>

\* the node is built: encode the address, `await snap.request(snap_dialog)`
SignShowDialog(r) ==
    /\ pc[r] = "awaitNode"
    /\ LET node == SLIP10NodeFromJSON(loc[r].entropy)
           publicKey == cleanPublicKeyResponse(node.publicKey)
           address == bechEncodePublicKey(publicKey)
           content == DialogContent(loc[r].origin, loc[r].transaction, address)
       IN  /\ loc' = [loc EXCEPT ![r] =
                         [node |-> node, publicKey |-> publicKey,
                          address |-> address] @@ @]
           /\ log' = [log EXCEPT ![r] =
                         @ \o <<Call("bechEncodePublicKey", publicKey),
                                Call("snap_dialog", content)>>]
    /\ wasm' = Alloc(wasm, r)
    /\ pc' = [pc EXCEPT ![r] = "awaitDialog"]
    /\ UNCHANGED <<request, response>>
    /\ UNCHANGED <<siteVars, parserVars>>

\* a failure of the dialog request is reported as a rejection
SignDialogFails_AsRejection(r) ==
    /\ pc[r] = "awaitDialog"
    /\ SignCatch(r, <<>>, "UserRejection", wasm)
    /\ UNCHANGED <<request, loc>>
    /\ UNCHANGED <<siteVars, parserVars>>

\* the dialog request itself fails
SignDialogFails(r) ==
    /\ pc[r] = "awaitDialog"
    /\ SignCatch(r, <<>>, "DialogError", wasm)
    /\ UNCHANGED <<request, loc>>
    /\ UNCHANGED <<siteVars, parserVars>>

\* the reject branch logs the rejection but does not throw
SignReject_FallsThrough(r) ==
    /\ pc[r] = "awaitDialog"
    /\ LET transaction == loc[r].transaction
           runtime_msg == serializeCall(transaction.call)
           unsignedTransaction == UnsignedTransaction(transaction, runtime_msg)
           serializedUnsignedTransaction ==
               serializeUnsignedTransaction(unsignedTransaction)
           privateKey == remove0x(loc[r].node.privateKey)
       IN  /\ loc' = [loc EXCEPT ![r] =
                         [approved |-> FALSE, runtime_msg |-> runtime_msg,
                          unsignedTransaction |-> unsignedTransaction,
                          serializedUnsignedTransaction |->
                              serializedUnsignedTransaction,
                          privateKey |-> privateKey] @@ @]
           /\ log' = [log EXCEPT ![r] =
                         @ \o <<Call("serializeCall", transaction.call),
                                Call("serializeUnsignedTransaction", unsignedTransaction),
                                Call("sign", [message |-> serializedUnsignedTransaction,
                                              privateKey |-> privateKey])>>]
    /\ wasm' = Alloc(wasm, r)
    /\ pc' = [pc EXCEPT ![r] = "awaitSign"]
    /\ UNCHANGED <<request, response>>
    /\ UNCHANGED <<siteVars, parserVars>>

\* the reject branch shows the dialog again
SignReject_Retries(r) ==
    /\ pc[r] = "awaitDialog"
    /\ Count(log[r], "snap_dialog") < 2
    /\ loc' = [loc EXCEPT ![r] = [approved |-> FALSE] @@ @]
    /\ log' = [log EXCEPT ![r] =
                  Append(@, Call("snap_dialog",
                                 DialogContent(loc[r].origin, loc[r].transaction,
                                               loc[r].address)))]
    /\ UNCHANGED <<pc, request, response, wasm>>
    /\ UNCHANGED <<siteVars, parserVars>>

\* the operator rejects: throw providerErrors.userRejectedRequest()
SignReject(r) ==
    /\ pc[r] = "awaitDialog"
    /\ loc' = [loc EXCEPT ![r] = [approved |-> FALSE] @@ @]
    /\ SignCatch(r, <<>>, "UserRejection", wasm)
    /\ UNCHANGED request
    /\ UNCHANGED <<siteVars, parserVars>>

\* the operator approves but wasm.serializeCall throws
SignSerializeCallFails(r) ==
    /\ pc[r] = "awaitDialog"
    /\ loc' = [loc EXCEPT ![r] = [approved |-> TRUE] @@ @]
    /\ SignCatch(r, <<Call("serializeCall", loc[r].transaction.call)>>,
                 "EncodingError", Alloc(wasm, r))
    /\ UNCHANGED request
    /\ UNCHANGED <<siteVars, parserVars>>

\* the operator approves but wasm.serializeUnsignedTransaction throws
SignSerializeUnsignedFails(r) ==
    /\ pc[r] = "awaitDialog"
    /\ LET transaction == loc[r].transaction
           runtime_msg == serializeCall(transaction.call)
           unsignedTransaction == UnsignedTransaction(transaction, runtime_msg)
       IN  /\ loc' = [loc EXCEPT ![r] =
                         [approved |-> TRUE, runtime_msg |-> runtime_msg,
                          unsignedTransaction |-> unsignedTransaction] @@ @]
           /\ SignCatch(r, <<Call("serializeCall", transaction.call),
                             Call("serializeUnsignedTransaction", unsignedTransaction)>>,
                        "EncodingError", Alloc(wasm, r))
    /\ UNCHANGED request
    /\ UNCHANGED <<siteVars, parserVars>>

\* the unsigned transaction is encoded before the call
SignApprove_EncodesCallLate(r) ==
    /\ pc[r] = "awaitDialog"
    /\ LET transaction == loc[r].transaction
           runtime_msg == serializeCall(transaction.call)
           unsignedTransaction == UnsignedTransaction(transaction, runtime_msg)
           serializedUnsignedTransaction ==
               serializeUnsignedTransaction(unsignedTransaction)
           privateKey == remove0x(loc[r].node.privateKey)
       IN  /\ loc' = [loc EXCEPT ![r] =
                         [approved |-> TRUE, runtime_msg |-> runtime_msg,
                          unsignedTransaction |-> unsignedTransaction,
                          serializedUnsignedTransaction |->
                              serializedUnsignedTransaction,
                          privateKey |-> privateKey] @@ @]
           /\ log' = [log EXCEPT ![r] =
                         @ \o <<Call("serializeUnsignedTransaction", unsignedTransaction),
                                Call("serializeCall", transaction.call),
                                Call("sign", [message |-> serializedUnsignedTransaction,
                                              privateKey |-> privateKey])>>]
    /\ wasm' = Alloc(wasm, r)
    /\ pc' = [pc EXCEPT ![r] = "awaitSign"]
    /\ UNCHANGED <<request, response>>
    /\ UNCHANGED <<siteVars, parserVars>>

\* the signer is handed runtime_msg instead of serializedUnsignedTransaction
SignApprove_SignsRuntimeMsg(r) ==
    /\ pc[r] = "awaitDialog"
    /\ LET transaction == loc[r].transaction
           runtime_msg == serializeCall(transaction.call)
           unsignedTransaction == UnsignedTransaction(transaction, runtime_msg)
           serializedUnsignedTransaction ==
               serializeUnsignedTransaction(unsignedTransaction)
           privateKey == remove0x(loc[r].node.privateKey)
       IN  /\ loc' = [loc EXCEPT ![r] =
                         [approved |-> TRUE, runtime_msg |-> runtime_msg,
                          unsignedTransaction |-> unsignedTransaction,
                          serializedUnsignedTransaction |->
                              serializedUnsignedTransaction,
                          privateKey |-> privateKey] @@ @]
           /\ log' = [log EXCEPT ![r] =
                         @ \o <<Call("serializeCall", transaction.call),
                                Call("serializeUnsignedTransaction", unsignedTransaction),
                                Call("sign", [message |-> runtime_msg,
                                              privateKey |-> privateKey])>>]
    /\ wasm' = Alloc(wasm, r)
    /\ pc' = [pc EXCEPT ![r] = "awaitSign"]
    /\ UNCHANGED <<request, response>>
    /\ UNCHANGED <<siteVars, parserVars>>

\* `transaction` is a module-level variable: after the dialog the handler reads
\* the envelope of whichever request assigned it last
SignApprove_SharedTransaction(r) ==
    /\ pc[r] = "awaitDialog"
    /\ \E q \in Reqs :
        /\ "transaction" \in DOMAIN loc[q]
        /\ LET transaction == loc[q].transaction
               runtime_msg == serializeCall(transaction.call)
               unsignedTransaction == UnsignedTransaction(transaction, runtime_msg)
               serializedUnsignedTransaction ==
                   serializeUnsignedTransaction(unsignedTransaction)
               privateKey == remove0x(loc[r].node.privateKey)
           IN  /\ loc' = [loc EXCEPT ![r] =
                             [approved |-> TRUE, runtime_msg |-> runtime_msg,
                              unsignedTransaction |-> unsignedTransaction,
                              serializedUnsignedTransaction |->
                                  serializedUnsignedTransaction,
                              privateKey |-> privateKey] @@ @]
               /\ log' = [log EXCEPT ![r] =
                             @ \o <<Call("serializeCall", transaction.call),
                                    Call("serializeUnsignedTransaction",
                                         unsignedTransaction),
                                    Call("sign",
                                         [message |-> serializedUnsignedTransaction,
                                          privateKey |-> privateKey])>>]
    /\ wasm' = Alloc(wasm, r)
    /\ pc' = [pc EXCEPT ![r] = "awaitSign"]
    /\ UNCHANGED <<request, response>>
    /\ UNCHANGED <<siteVars, parserVars>>

\* the operator approves: encode the call, build and encode the unsigned
\* transaction, `await sign(serializedUnsignedTransaction, privateKey)`
SignApprove(r) ==
    /\ pc[r] = "awaitDialog"
    /\ LET transaction == loc[r].transaction
           runtime_msg == serializeCall(transaction.call)
           unsignedTransaction == UnsignedTransaction(transaction, runtime_msg)
           serializedUnsignedTransaction ==
               serializeUnsignedTransaction(unsignedTransaction)
           privateKey == remove0x(loc[r].node.privateKey)
       IN  /\ loc' = [loc EXCEPT ![r] =
                         [approved |-> TRUE, runtime_msg |-> runtime_msg,
                          unsignedTransaction |-> unsignedTransaction,
                          serializedUnsignedTransaction |->
                              serializedUnsignedTransaction,
                          privateKey |-> privateKey] @@ @]
           /\ log' = [log EXCEPT ![r] =
                         @ \o <<Call("serializeCall", transaction.call),
                                Call("serializeUnsignedTransaction", unsignedTransaction),
                                Call("sign", [message |-> serializedUnsignedTransaction,
                                              privateKey |-> privateKey])>>]
    /\ wasm' = Alloc(wasm, r)
    /\ pc' = [pc EXCEPT ![r] = "awaitSign"]
    /\ UNCHANGED <<request, response>>
    /\ UNCHANGED <<siteVars, parserVars>>

\* what `await sign(...)` resolves to: the signature of the arguments of the
\* pending call, the last entry of the log
Signature(l) == sign(l[Len(l)].arg.message, l[Len(l)].arg.privateKey)

\* the failure of the signer is noticed only after the transaction is
\* assembled and handed to the encoder
SignSignFails_Assembles(r) ==
    /\ pc[r] = "awaitSign"
    /\ LET signedTransaction ==
               SignedTransaction(<<>>, loc[r].publicKey, loc[r].unsignedTransaction)
       IN  /\ log' = [log EXCEPT ![r] =
                         @ \o <<Raise("SigningError"),
                                Call("signedTransaction", signedTransaction),
                                Call("serializeTransaction", signedTransaction),
                                Call("dealloc", 0), Call("throw", "SigningError")>>]
    /\ wasm' = Dealloc(Alloc(wasm, r))
    /\ response' = [response EXCEPT ![r] = ErrorResponse("SigningError")]
    /\ pc' = [pc EXCEPT ![r] = "done"]
    /\ UNCHANGED <<request, loc>>
    /\ UNCHANGED <<siteVars, parserVars>>

\* the signer rejects
SignSignFails(r) ==
    /\ pc[r] = "awaitSign"
    /\ SignCatch(r, <<>>, "SigningError", wasm)
    /\ UNCHANGED <<request, loc>>
    /\ UNCHANGED <<siteVars, parserVars>>

\* the signature arrives but wasm.serializeTransaction throws
SignSerializeTransactionFails(r) ==
    /\ pc[r] = "awaitSign"
    /\ LET sig == Signature(log[r])
           signedTransaction ==
               SignedTransaction(sig, loc[r].publicKey, loc[r].unsignedTransaction)
       IN  /\ loc' = [loc EXCEPT ![r] =
                         [sig |-> sig, signedTransaction |-> signedTransaction] @@ @]
           /\ SignCatch(r, <<Call("signedTransaction", signedTransaction),
                             Call("serializeTransaction", signedTransaction)>>,
                        "EncodingError", Alloc(wasm, r))
    /\ UNCHANGED request
    /\ UNCHANGED <<siteVars, parserVars>>

\* the signature is salted per call (a randomized signing scheme)
SignFinish_RandomizedSignature(r) ==
    /\ pc[r] = "awaitSign"
    /\ LET sig == <<Signature(log[r]), r>>
           signedTransaction ==
               SignedTransaction(sig, loc[r].publicKey, loc[r].unsignedTransaction)
           tx == serializeTransaction(signedTransaction)
           txHex == bytesToHex(tx)
       IN  /\ loc' = [loc EXCEPT ![r] =
                         [sig |-> sig, signedTransaction |-> signedTransaction,
                          tx |-> tx, txHex |-> txHex] @@ @]
           /\ log' = [log EXCEPT ![r] =
                         @ \o <<Call("signedTransaction", signedTransaction),
                                Call("serializeTransaction", signedTransaction),
                                Call("bytesToHex", tx),
                                Call("dealloc", 0), Call("return", txHex)>>]
           /\ response' = [response EXCEPT ![r] = ResultResponse(txHex)]
    /\ wasm' = Dealloc(Alloc(wasm, r))
    /\ pc' = [pc EXCEPT ![r] = "done"]
    /\ UNCHANGED request
    /\ UNCHANGED <<siteVars, parserVars>>

\* the signature arrives: assemble, encode, hex-encode, dealloc, return txHex
SignFinish(r) ==
    /\ pc[r] = "awaitSign"
    /\ LET sig == Signature(log[r])
           signedTransaction ==
               SignedTransaction(sig, loc[r].publicKey, loc[r].unsignedTransaction)
           tx == serializeTransaction(signedTransaction)
           txHex == bytesToHex(tx)
       IN  /\ loc' = [loc EXCEPT ![r] =
                         [sig |-> sig, signedTransaction |-> signedTransaction,
                          tx |-> tx, txHex |-> txHex] @@ @]
           /\ log' = [log EXCEPT ![r] =
                         @ \o <<Call("signedTransaction", signedTransaction),
                                Call("serializeTransaction", signedTransaction),
                                Call("bytesToHex", tx),
                                Call("dealloc", 0), Call("return", txHex)>>]
           /\ response' = [response EXCEPT ![r] = ResultResponse(txHex)]
    /\ wasm' = Dealloc(Alloc(wasm, r))
    /\ pc' = [pc EXCEPT ![r] = "done"]
    /\ UNCHANGED request
    /\ UNCHANGED <<siteVars, parserVars>>

(***************************************************************************)
(* default: throw new Error('Method not found.')                           *)
(***************************************************************************)
\* the default branch releases the codec before it throws
MethodNotFound_Deallocs(r) ==
    /\ pc[r] = "idle"
    /\ request' = [request EXCEPT ![r] = [method |-> "foo"]]
    /\ log' = [log EXCEPT ![r] =
                  <<Call("dealloc", 0), Raise("MethodNotFound"),
                    Call("throw", "MethodNotFound")>>]
    /\ wasm' = Dealloc(wasm)
    /\ response' = [response EXCEPT ![r] = ErrorResponse("MethodNotFound")]
    /\ pc' = [pc EXCEPT ![r] = "done"]
    /\ UNCHANGED loc
    /\ UNCHANGED <<siteVars, parserVars>>

MethodNotFound(r) ==
    /\ pc[r] = "idle"
    /\ request' = [request EXCEPT ![r] = [method |-> "foo"]]
    /\ log' = [log EXCEPT ![r] =
                  <<Raise("MethodNotFound"), Call("throw", "MethodNotFound")>>]
    /\ response' = [response EXCEPT ![r] = ErrorResponse("MethodNotFound")]
    /\ pc' = [pc EXCEPT ![r] = "done"]
    /\ UNCHANGED <<loc, wasm>>
    /\ UNCHANGED <<siteVars, parserVars>>

(***************************************************************************)
(* The specification                                                       *)
(***************************************************************************)
Next ==
    \E r \in Reqs :
        \/ GetAddressStart(r)
        \/ GetAddressPublicKeyFails(r)
        \/ GetAddressEncodeFails(r)
        \/ GetAddressFinish(r)
        \/ SignStart(r)
        \/ SignEntropyFails(r)
        \/ SignEntropyArrives(r)
        \/ SignNodeFails(r)
        \/ SignEncodeAddressFails(r)
        \/ SignShowDialog(r)
        \/ SignDialogFails(r)
        \/ SignReject(r)
        \/ SignSerializeCallFails(r)
        \/ SignSerializeUnsignedFails(r)
        \/ SignApprove(r)
        \/ SignSignFails(r)
        \/ SignSerializeTransactionFails(r)
        \/ SignFinish(r)
        \/ MethodNotFound(r)

Spec == Init /\ [][Next]_vars

(***************************************************************************)
(* The site component alone                                                *)
(***************************************************************************)
SiteNext ==
    \/ \E value \in NumberTexts : EditKeyId(value)
    \/ \E value \in NumberTexts : EditNonce(value)
    \/ \E value \in NumberTexts : EditChainId(value)
    \/ \E value \in NumberTexts : EditMaxPriorityFee(value)
    \/ \E value \in NumberTexts : EditMaxFee(value)
    \/ \E value \in GasLimitTexts : EditGasLimit(value)
    \/ \E value \in CallMessageTexts : EditCallMessage(value)
    \/ \E value \in SequencerTexts : EditSequencer(value)
    \/ ClickSign
    \/ ClickGetAddress
    \/ ClickSubmitTx
    \/ ClickSubmitBatch
    \/ \E o \in pending : SignResolves(o)
    \/ \E o \in pending : SignRejects(o)
    \/ \E o \in pending : GetAddressResolves(o)
    \/ \E o \in pending : GetAddressRejects(o)
    \/ \E o \in pending : SubmitFetchResolves(o)
    \/ \E o \in pending : SubmitFails(o)
    \/ \E o \in pending : SubmitJsonResolves(o)

SiteSpec == Init /\ [][SiteNext]_vars

(***************************************************************************)
(* parseGasLimit alone                                                     *)
(***************************************************************************)
\* the argument is any string of at most MaxLen characters
ParserArguments ==
    /\ SnapInit /\ SiteInit
    /\ gasLimitString \in GasLimitStrings
    /\ gasLimit = NotReturned

\* parseGasLimit(gasLimitString) runs and returns
CallParseGasLimit ==
    /\ ~gasLimit.returned
    /\ gasLimit' = Returned(parseGasLimit(gasLimitString))
    /\ UNCHANGED <<gasLimitString, siteVars, snapVars>>

ParserNext == CallParseGasLimit

ParserSpec == ParserArguments /\ [][ParserNext]_vars

\* the entries of a gas limit string: its comma-separated pieces, trimmed,
\* without the empty ones
Entries(str) == SelectSeq(MapTrim(split(str)), NotEmpty)

\* the entry starts with a digit: it reads as a number without a minus sign
\* (characters after the digits are not read)
ParsesNonNegative(entry) == IsDigit(Head(entry))

\* the decimal value of the digits the entry starts with
LeadingValue(entry) ==
    LET RECURSIVE DigitsRead(_)
        DigitsRead(i) ==
            IF i > Len(entry) \/ ~IsDigit(entry[i]) THEN i - 1 ELSE DigitsRead(i + 1)
        RECURSIVE ValueUpTo(_)
        ValueUpTo(i) ==
            IF i = 0 THEN 0 ELSE 10 * ValueUpTo(i - 1) + DigitValue(entry[i])
    IN  ValueUpTo(DigitsRead(1))

\* C33: parseGasLimit returns undefined for a blank string and otherwise the
\* array of the entries that parse as non-negative integers, in their order:
\* empty, non-numeric and negative entries are dropped
C33_ParseGasLimit ==
    gasLimit.returned =>
        LET result == gasLimit.value
            kept == SelectSeq(Entries(gasLimitString), ParsesNonNegative)
        IN  /\ result.defined <=> trim(gasLimitString) # <<>>
            /\ result.defined =>
                  /\ Len(result.items) = Len(kept)
                  /\ \A i \in 1..Len(kept) :
                        /\ result.items[i] \in Nat
                        /\ result.items[i] = LeadingValue(kept[i])

\* "7,-1" has returned [7]: the negative entry was dropped
C33_Witness ==
    /\ gasLimit.returned
    /\ gasLimitString = <<"7", ",", "-", "1">>
    /\ gasLimit.value = Array(<<7>>)

\* the numeric inputs of the site
NumericFields == {"keyId", "nonce", "chainId", "maxPriorityFee", "maxFee"}

\* C34: after any sequence of edits, keyId, nonce, chain id, max priority fee
\* and max fee each hold a non-negative integer; no edit, clearing a field
\* included, stores a non-number.  Violated: clearing the nonce, chain id or
\* fee inputs stores parseInt('') = NaN.
C34_NumericFieldsHoldNaturals ==
    \A key \in NumericFields :
        /\ ~state[key].isNaN
        /\ state[key].value \in Nat

\* a submit button was clicked in this step
SubmitClicked == Len(trace'.events) = Len(trace.events) + 1

\* the network requests this step issued
RequestsIssued == {o \in pending' \ pending : o.kind = "submit" /\ o.stage = "fetch"}

\* C35: the site never sends a submission without a signed transaction and a
\* sequencer URL: a click on Submit Tx or Submit Batch with no transaction
\* held throws 'Tx field is empty', one with an empty sequencer URL sets an
\* error status, and neither issues a network request
C35_NoSubmissionWithoutTxAndUrl ==
    [][/\ \A o \in RequestsIssued :
             ~Falsy(o.state, "tx") /\ ~Falsy(o.state, "sequencer")
       /\ SubmitClicked =>
             LET click == trace'.events[Len(trace'.events)]
             IN  /\ Falsy(state, "tx") =>
                       /\ click.outcome = "throw"
                       /\ RequestsIssued = {}
                       /\ state' = state
                 /\ (~Falsy(state, "tx") /\ Falsy(state, "sequencer")) =>
                       /\ click.outcome = "status"
                       /\ RequestsIssued = {}
                       /\ state'.status = "Sequencer URL field is empty"
                 /\ (~Falsy(state, "tx") /\ ~Falsy(state, "sequencer")) =>
                       RequestsIssued # {}]_vars

\* a submit without a transaction has thrown, and one with a transaction but
\* no sequencer URL has set the error status
C35_Witness ==
    /\ \E i \in 1..Len(trace.events) : trace.events[i].outcome = "throw"
    /\ \E i \in 1..Len(trace.events) :
          /\ trace.events[i].outcome = "status"
          /\ trace.events[i].tx = "0xsigned"
          /\ trace.events[i].sequencer = ""

\* the fields an operation writes its result to
ResultFields(kind) ==
    IF kind = "getAddress" THEN {"address"}
    ELSE IF kind = "sign" THEN {"tx", "status"}
    ELSE {"status"}

\* C36: the completion of an asynchronous operation updates only its own
\* result field; edits made while it was pending and the results of other
\* operations are still in the state afterwards.  Violated: the completion
\* writes {...state, result} with the state of the render that started it.
C36_CompletionKeepsOtherFields ==
    [][\A o \in pending :
          pending' = pending \ {o} =>
              \A key \in (DOMAIN state \cup DOMAIN state') \ ResultFields(o.kind) :
                  /\ key \in DOMAIN state
                  /\ key \in DOMAIN state'
                  /\ state'[key] = state[key]]_vars

(***************************************************************************)
(* The handler with a wasm.dealloc() that can raise                        *)
(***************************************************************************)
\* getAddress: the address is encoded, wasm.dealloc() of line 612 throws; the
\* catch block calls wasm.dealloc() again and rethrows
GetAddressReleaseFails(r) ==
    /\ pc[r] = "awaitPublicKey"
    /\ LET publicKeyResponse == GetBip32PublicKey(loc[r].keypairParams)
           publicKey == cleanPublicKeyResponse(publicKeyResponse)
           address == bechEncodePublicKey(publicKey)
       IN  /\ log' = [log EXCEPT ![r] =
                         @ \o <<Call("bechEncodePublicKey", publicKey),
                                Call("dealloc", 0), Raise("ReleaseError"),
                                Call("dealloc", 0), Call("throw", "ReleaseError")>>]
           /\ loc' = [loc EXCEPT ![r] =
                         [publicKey |-> publicKey, address |-> address] @@ @]
    /\ wasm' = Dealloc(Alloc(wasm, r))
    /\ response' = [response EXCEPT ![r] = ErrorResponse("ReleaseError")]
    /\ pc' = [pc EXCEPT ![r] = "done"]
    /\ UNCHANGED request
    /\ UNCHANGED <<siteVars, parserVars>>

\* signTransaction: txHex is computed, wasm.dealloc() of line 715 throws; the
\* catch block calls wasm.dealloc() again and rethrows
SignReleaseFails(r) ==
    /\ pc[r] = "awaitSign"
    /\ LET sig == Signature(log[r])
           signedTransaction ==
               SignedTransaction(sig, loc[r].publicKey, loc[r].unsignedTransaction)
           tx == serializeTransaction(signedTransaction)
           txHex == bytesToHex(tx)
       IN  /\ loc' = [loc EXCEPT ![r] =
                         [sig |-> sig, signedTransaction |-> signedTransaction,
                          tx |-> tx, txHex |-> txHex] @@ @]
           /\ log' = [log EXCEPT ![r] =
                         @ \o <<Call("signedTransaction", signedTransaction),
                                Call("serializeTransaction", signedTransaction),
                                Call("bytesToHex", tx),
                                Call("dealloc", 0), Raise("ReleaseError"),
                                Call("dealloc", 0), Call("throw", "ReleaseError")>>]
    /\ wasm' = Dealloc(Alloc(wasm, r))
    /\ response' = [response EXCEPT ![r] = ErrorResponse("ReleaseError")]
    /\ pc' = [pc EXCEPT ![r] = "done"]
    /\ UNCHANGED request
    /\ UNCHANGED <<siteVars, parserVars>>

NextRelease ==
    \/ Next
    \/ \E r \in Reqs : GetAddressReleaseFails(r)
    \/ \E r \in Reqs : SignReleaseFails(r)

ReleaseSpec == Init /\ [][NextRelease]_vars

\* the continuation of request r after the await it is suspended at: the
\* promise settled, with a value or with an error
Resume(r) ==
    \/ GetAddressPublicKeyFails(r)
    \/ GetAddressEncodeFails(r)
    \/ GetAddressFinish(r)
    \/ SignEntropyFails(r)
    \/ SignEntropyArrives(r)
    \/ SignNodeFails(r)
    \/ SignEncodeAddressFails(r)
    \/ SignShowDialog(r)
    \/ SignDialogFails(r)
    \/ SignReject(r)
    \/ SignSerializeCallFails(r)
    \/ SignSerializeUnsignedFails(r)
    \/ SignApprove(r)
    \/ SignSignFails(r)
    \/ SignSerializeTransactionFails(r)
    \/ SignFinish(r)

\* The custody gateway, the operator and the signer answer every request put
\* to them, and the event loop runs the continuation of a settled promise.
\* Requests need not arrive.
LiveSpec == Init /\ [][Next]_vars /\ \A r \in Reqs : WF_vars(Resume(r))

(***************************************************************************)
(* Properties                                                              *)
(***************************************************************************)
IsGetAddress(r) == request[r].method = "getAddress"

IsSignTransaction(r) == request[r].method = "signTransaction"

Rejected(r) == "approved" \in DOMAIN loc[r] /\ ~loc[r].approved

Approved(r) == "approved" \in DOMAIN loc[r] /\ loc[r].approved

CustodyOps == {"snap_getBip32PublicKey", "snap_getBip32Entropy", "SLIP10Node.fromJSON"}

EncoderOps == {"serializeCall", "serializeUnsignedTransaction", "serializeTransaction"}

CodecOps == EncoderOps \cup {"bechEncodePublicKey"}

CountIn(l, ops) == Cardinality({i \in 1..Len(l) : l[i].op \in ops})

\* the positions of the log where op was invoked
Positions(l, op) == {i \in 1..Len(l) : l[i].op = op}

\* C1: in a signTransaction request the operator rejected, the encoder
\* (serializeCall, serializeUnsignedTransaction, serializeTransaction) and the
\* signer were invoked zero times, and wasm.dealloc() was still called.
C1_RejectSkipsEncoderAndSigner ==
    \A r \in Reqs :
        (IsSignTransaction(r) /\ Rejected(r)) =>
            /\ CountIn(log[r], EncoderOps \cup {"sign"}) = 0
            /\ Count(log[r], "dealloc") >= 1

C1_Witness ==
    \E r \in Reqs :
        /\ IsSignTransaction(r) /\ Rejected(r) /\ pc[r] = "done"
        /\ Count(log[r], "snap_dialog") = 1

\* C2: a signTransaction request answers with a hex string only if the dialog
\* of that request was approved and every step succeeded (no call raised and
\* the value is the hex of the transaction encoded in that request); a
\* request in which anything raised answers with an error and no value.
C2_HexOnlyAfterApprovalAndSuccess ==
    \A r \in Reqs :
        IsSignTransaction(r) =>
            /\ response[r].kind = "result" =>
                  /\ Approved(r)
                  /\ Count(log[r], "snap_dialog") = 1
                  /\ Count(log[r], "raise") = 0
                  /\ \A op \in EncoderOps \cup {"sign", "bytesToHex"} :
                        Count(log[r], op) = 1
                  /\ response[r].value = bytesToHex(serializeTransaction(
                                             loc[r].signedTransaction))
            /\ Count(log[r], "raise") > 0 =>
                  /\ response[r].kind = "error"
                  /\ "value" \notin DOMAIN response[r]

C2_Witness ==
    \E r \in Reqs :
        /\ IsSignTransaction(r) /\ response[r].kind = "result"
        /\ \E q \in Reqs : IsSignTransaction(q) /\ response[q].error = "SigningError"

\* C3: every getAddress or signTransaction request that has ended has called
\* wasm.dealloc() exactly once, whichever way it ended.
C3_ReleasedExactlyOnce ==
    \A r \in Reqs :
        ((IsGetAddress(r) \/ IsSignTransaction(r)) /\ pc[r] = "done") =>
            Count(log[r], "dealloc") = 1

\* the parameters of request r are of the wrong type
Malformed(r) ==
    \/ "keyId" \notin DOMAIN request[r].params
    \/ request[r].params.keyId.t # "number"
    \/ IsSignTransaction(r) /\ request[r].params.transaction.chain_id.t # "number"

\* C4: a request whose parameters fail validation (keyId given as a string, a
\* mistyped envelope field) ends with ValidationError, having made no custody
\* call, no codec call and no dialog request.
C4_ValidationErrorBeforeAnyEffect ==
    \A r \in Reqs :
        ((IsGetAddress(r) \/ IsSignTransaction(r)) /\ Malformed(r)) =>
            /\ pc[r] = "done"
            /\ response[r] = ErrorResponse("ValidationError")
            /\ CountIn(log[r], CustodyOps \cup CodecOps \cup {"snap_dialog", "sign"}) = 0
            /\ Ops(log[r])[1] = "validate"

C4_Witness ==
    /\ \E r \in Reqs : IsGetAddress(r) /\ request[r].params = [keyId |-> Str(0)]
    /\ \E r \in Reqs : IsSignTransaction(r) /\ Malformed(r)

\* C5: when a getAddress or signTransaction request answers with an error
\* other than ValidationError, wasm.dealloc() was called in that request
\* before the error was thrown to the caller.
C5_ReleaseBeforeError ==
    \A r \in Reqs :
        ( /\ IsGetAddress(r) \/ IsSignTransaction(r)
          /\ response[r].kind = "error"
          /\ response[r].error # "ValidationError" ) =>
            \E i \in Positions(log[r], "dealloc") :
                \A j \in Positions(log[r], "throw") : i < j

C5_Witness ==
    /\ \E r \in Reqs : IsGetAddress(r) /\ response[r].error = "DerivationError"
    /\ \E r \in Reqs : IsSignTransaction(r) /\ response[r].error = "UserRejection"

\* the stages of a signTransaction request, in the order of the handler
SignStages ==
    <<"validate", "getKeypairParams", "snap_getBip32Entropy", "SLIP10Node.fromJSON",
      "bechEncodePublicKey", "snap_dialog", "serializeCall",
      "serializeUnsignedTransaction", "sign", "signedTransaction",
      "serializeTransaction", "bytesToHex", "dealloc", "respond">>

StageOf(op) == IF op \in {"throw", "return"} THEN "respond" ELSE op

\* the position of each stage in SignStages
RankOf ==
    [s \in {SignStages[i] : i \in 1..Len(SignStages)} |->
        CHOOSE i \in 1..Len(SignStages) : SignStages[i] = s]

Rank(op) == RankOf[StageOf(op)]

IsCall(e) == e.op # "raise"

\* the stages between validation and the hex encoding
WorkRanks == 2..12

\* C6: in a signTransaction request the stages are invoked in the order
\* validation, path derivation, key fetch, address encoding, dialog, encode
\* call, encode unsigned transaction, sign, assemble, encode signed
\* transaction, hex-encode, release, respond: each at most once, each work
\* stage directly after the successful call of its predecessor, the encoding
\* only after approval, and the response last.
C6_StagesInOrder ==
    \A r \in Reqs :
        IsSignTransaction(r) =>
            LET l == log[r]
                calls == SelectSeq(l, IsCall)
            IN  /\ \A i \in 1..(Len(calls) - 1) :
                       Rank(calls[i].op) < Rank(calls[i + 1].op)
                /\ \A i \in 1..Len(l) :
                       (IsCall(l[i]) /\ Rank(l[i].op) \in WorkRanks) =>
                           /\ i > 1
                           /\ IsCall(l[i - 1])
                           /\ Rank(l[i - 1].op) = Rank(l[i].op) - 1
                /\ Count(l, "serializeCall") > 0 => Approved(r)
                /\ \A i \in 1..Len(l) :
                       StageOf(l[i].op) = "respond" => (i = Len(l) /\ pc[r] = "done")
                /\ Count(l, "return") > 0 =>
                       /\ Len(l) = Len(SignStages)
                       /\ Count(l, "raise") = 0

C6_Witness ==
    \E r \in Reqs :
        /\ IsSignTransaction(r)
        /\ [i \in 1..Len(log[r]) |-> StageOf(log[r][i].op)] = SignStages

\* C7: the message handed to the signer is the output of
\* serializeUnsignedTransaction for the unsigned transaction built in that
\* request, and the signature placed in the signed transaction is the
\* signature of that message.
C7_SignsCanonicalUnsignedBytes ==
    \A r \in Reqs :
        /\ \A i \in Positions(log[r], "sign") :
              /\ i > 1
              /\ log[r][i - 1].op = "serializeUnsignedTransaction"
              /\ log[r][i - 1].arg = loc[r].unsignedTransaction
              /\ log[r][i].arg.message =
                     serializeUnsignedTransaction(loc[r].unsignedTransaction)
        /\ "signedTransaction" \in DOMAIN loc[r] =>
              loc[r].signedTransaction.signature.msg_sig =
                  sign(serializeUnsignedTransaction(loc[r].unsignedTransaction),
                       loc[r].privateKey)

C7_Witness ==
    \E r \in Reqs :
        /\ Count(log[r], "sign") = 1
        /\ "signedTransaction" \in DOMAIN loc[r]
        /\ "gas_limit" \in DOMAIN loc[r].unsignedTransaction

EnvelopeKeys == {"chain_id", "max_priority_fee_bips", "max_fee", "gas_limit", "nonce"}

\* C8: the unsigned transaction has the keys of the envelope with call
\* replaced by runtime_msg, runtime_msg is the encoder's output for call, and
\* chain_id, max_priority_fee_bips, max_fee, gas_limit and nonce hold the
\* values the caller sent.
C8_OnlyCallReplaced ==
    \A r \in Reqs :
        "unsignedTransaction" \in DOMAIN loc[r] =>
            LET t == request[r].params.transaction
                u == loc[r].unsignedTransaction
            IN  /\ DOMAIN u = ((DOMAIN t) \ {"call"}) \cup {"runtime_msg"}
                /\ u.runtime_msg = serializeCall(t.call)
                /\ \A k \in EnvelopeKeys \cap DOMAIN t : u[k] = t[k]
                /\ \A k \in EnvelopeKeys \ DOMAIN t : k \notin DOMAIN u

C8_Witness ==
    /\ \E r \in Reqs :
          /\ "unsignedTransaction" \in DOMAIN loc[r]
          /\ request[r].params.transaction = OtherTransaction
    /\ \E r \in Reqs :
          /\ "unsignedTransaction" \in DOMAIN loc[r]
          /\ request[r].params.transaction = [gas_limit |-> Arr(<<7>>)] @@ TestTransaction

\* the envelope of request r is the test envelope with gas_limit omitted or empty
GasOmittedOrEmpty(r) ==
    /\ IsSignTransaction(r)
    /\ request[r].params \in
           {[keyId |-> Num(0), transaction |-> t] :
               t \in {TestTransaction, [gas_limit |-> Arr(<<>>)] @@ TestTransaction}}

\* C9: a signTransaction request with gas_limit omitted and one with gas_limit
\* present but empty both pass validation, and in the unsigned transaction of
\* either one chain_id, max_priority_fee_bips, max_fee and nonce equal the
\* envelope's and gas_limit is absent or empty as it was sent.
C9_GasLimitOptional ==
    \A r \in Reqs :
        GasOmittedOrEmpty(r) =>
            /\ response[r].error # "ValidationError"
            /\ Count(log[r], "snap_getBip32Entropy") = 1
            /\ "unsignedTransaction" \in DOMAIN loc[r] =>
                  omitKey("runtime_msg", loc[r].unsignedTransaction) =
                      omitKey("call", request[r].params.transaction)

C9_Witness ==
    /\ \E r \in Reqs :
          /\ GasOmittedOrEmpty(r)
          /\ "unsignedTransaction" \in DOMAIN loc[r]
          /\ "gas_limit" \notin DOMAIN loc[r].unsignedTransaction
    /\ \E r \in Reqs :
          /\ GasOmittedOrEmpty(r)
          /\ "unsignedTransaction" \in DOMAIN loc[r]
          /\ "gas_limit" \in DOMAIN loc[r].unsignedTransaction

\* C10: no request asks for the dialog twice; a signTransaction request that
\* has reached the gate has asked for it exactly once; and a rejected request
\* has ended, with nothing but the release and the error after its dialog.
C10_DialogOneShot ==
    \A r \in Reqs :
        /\ Count(log[r], "snap_dialog") <= 1
        /\ (pc[r] \in {"awaitDialog", "awaitSign"} \/ "approved" \in DOMAIN loc[r]) =>
              Count(log[r], "snap_dialog") = 1
        /\ Rejected(r) =>
              /\ pc[r] = "done"
              /\ \A i \in Positions(log[r], "snap_dialog") :
                    SubSeq(Ops(log[r]), i + 1, Len(log[r])) =
                        <<"raise", "dealloc", "throw">>

C10_Witness ==
    /\ \E r \in Reqs : Rejected(r) /\ response[r].error = "UserRejection"
    /\ \E r \in Reqs : Approved(r) /\ pc[r] = "awaitSign"

\* C11: a request whose method is neither getAddress nor signTransaction ends
\* with the 'Method not found.' error, having made no custody call, shown no
\* dialog, and neither used nor released the codec.
C11_MethodNotFoundHasNoEffect ==
    \A r \in Reqs :
        request[r].method \notin {"none", "getAddress", "signTransaction"} =>
            /\ pc[r] = "done"
            /\ response[r] = ErrorResponse("MethodNotFound")
            /\ CountIn(log[r], CustodyOps \cup CodecOps
                                   \cup {"snap_dialog", "sign", "dealloc"}) = 0
            /\ r \notin wasm.allocated

C11_Witness ==
    \E r \in Reqs :
        /\ request[r].method = "foo"
        /\ response[r].kind = "error"
        /\ \E q \in Reqs : q \in wasm.allocated

C14_RejectionDistinct ==
    \A r \in Reqs :
        /\ (pc[r] = "done" /\ Rejected(r)) => response[r] = ErrorResponse("UserRejection")
        /\ response[r].error = "UserRejection" =>
              /\ IsSignTransaction(r)
              /\ Rejected(r)
              /\ \A i \in Positions(log[r], "raise") :
                    i > 1 /\ log[r][i - 1].op = "snap_dialog"

C14_Witness ==
    /\ \E r \in Reqs : Rejected(r) /\ response[r].error = "UserRejection"
    /\ \E r \in Reqs : response[r].error = "DialogError"

\* C15: whenever a call fails inside getAddress or signTransaction, the
\* request ends with that very error thrown to the caller, nothing else
\* fails, and the call that failed was invoked only once.
C15_NoSwallowNoRetry ==
    \A r \in Reqs :
        \A i \in Positions(log[r], "raise") :
            /\ pc[r] = "done"
            /\ response[r] = ErrorResponse(log[r][i].arg)
            /\ log[r][Len(log[r])] = Call("throw", log[r][i].arg)
            /\ Count(log[r], "raise") = 1
            /\ i > 1 => Count(log[r], log[r][i - 1].op) = 1

C15_Witness ==
    /\ \E r \in Reqs : IsGetAddress(r) /\ response[r].error = "EncodingError"
    /\ \E r \in Reqs : IsSignTransaction(r) /\ response[r].error = "DerivationError"

AfterSerializeCall ==
    {"serializeUnsignedTransaction", "sign", "signedTransaction",
     "serializeTransaction", "bytesToHex"}

AfterSerializeUnsigned == {"sign", "signedTransaction", "serializeTransaction", "bytesToHex"}

AfterSign == {"signedTransaction", "serializeTransaction", "bytesToHex"}

\* the call of request r that raised, "none" if none did
FailedOp(r) ==
    IF \E i \in Positions(log[r], "raise") : i > 1
    THEN log[r][(CHOOSE i \in Positions(log[r], "raise") : i > 1) - 1].op
    ELSE "none"

\* C16: in a signTransaction request, if serializeCall fails no later step is
\* invoked (the signer in particular); if serializeUnsignedTransaction fails
\* the signer is not invoked; if the signer fails the signed transaction is
\* neither assembled nor encoded; and no result is returned.
C16_FailureSkipsLaterSteps ==
    \A r \in Reqs :
        IsSignTransaction(r) =>
            /\ FailedOp(r) = "serializeCall" =>
                  CountIn(log[r], AfterSerializeCall) = 0
            /\ FailedOp(r) = "serializeUnsignedTransaction" =>
                  CountIn(log[r], AfterSerializeUnsigned) = 0
            /\ FailedOp(r) = "sign" =>
                  CountIn(log[r], AfterSign) = 0
            /\ FailedOp(r) # "none" => response[r].kind = "error"

C16_Witness ==
    /\ \E r \in Reqs : IsSignTransaction(r) /\ FailedOp(r) = "sign"
    /\ \E r \in Reqs :
          IsSignTransaction(r)
          /\ FailedOp(r) \in {"serializeCall", "serializeUnsignedTransaction"}

\* C18: a step of one request never releases the codec buffers of another
\* request that is still in flight: what a request allocated in the codec
\* stays allocated until that request itself releases it.
C18_ReleaseLeavesOthersAlone ==
    [][\A q \in Reqs :
          ( /\ q \in wasm.allocated
            /\ pc[q] \notin {"idle", "done"}
            /\ pc'[q] = pc[q]
            /\ log'[q] = log[q] ) => q \in wasm'.allocated]_vars

\* keyId is present in the parameters of request r and is a non-negative number
KeyIdNonNegative(r) ==
    /\ "keyId" \in DOMAIN request[r].params
    /\ request[r].params.keyId.t = "number"
    /\ request[r].params.keyId.v >= 0

\* C19: a getAddress or signTransaction request whose keyId is missing, not a
\* number or negative ends with ValidationError, and only a request with a
\* non-negative keyId reaches path derivation.
C19_KeyIdValidated ==
    \A r \in Reqs :
        (IsGetAddress(r) \/ IsSignTransaction(r)) =>
            /\ ~KeyIdNonNegative(r) => response[r] = ErrorResponse("ValidationError")
            /\ Count(log[r], "getKeypairParams") > 0 => KeyIdNonNegative(r)

NumericKeys == {"chain_id", "max_priority_fee_bips", "max_fee", "nonce"}

\* the numeric fields of envelope t are non-negative, gas_limit included
NonNegativeEnvelope(t) ==
    /\ \A k \in NumericKeys : t[k].v >= 0
    /\ "gas_limit" \in DOMAIN t =>
          \A i \in 1..Len(t.gas_limit.v) : t.gas_limit.v[i] >= 0

\* C20: the envelope of every signTransaction request that passed validation
\* has non-negative chain_id, max_priority_fee_bips, max_fee and nonce and a
\* gas_limit that is absent or holds non-negative integers, so no envelope
\* with a negative field is shown in the dialog or signed.
C20_ValidatedEnvelopeNonNegative ==
    \A r \in Reqs :
        (IsSignTransaction(r) /\ "transaction" \in DOMAIN loc[r]) =>
            NonNegativeEnvelope(loc[r].transaction)

\* C21: a getAddress request whose custody call (snap_getBip32PublicKey)
\* failed has ended with an error and no address, never invoked the address
\* encoder, and called wasm.dealloc() exactly once, before the throw.
C21_CustodyFailureInGetAddress ==
    \A r \in Reqs :
        (IsGetAddress(r) /\ FailedOp(r) = "snap_getBip32PublicKey") =>
            /\ pc[r] = "done"
            /\ response[r].kind = "error"
            /\ "value" \notin DOMAIN response[r]
            /\ "address" \notin DOMAIN loc[r]
            /\ Count(log[r], "bechEncodePublicKey") = 0
            /\ Count(log[r], "return") = 0
            /\ Count(log[r], "dealloc") = 1
            /\ \A i \in Positions(log[r], "dealloc") :
                  \A j \in Positions(log[r], "throw") : i < j

C21_Witness ==
    \E r \in Reqs :
        /\ IsGetAddress(r)
        /\ FailedOp(r) = "snap_getBip32PublicKey"
        /\ response[r] = ErrorResponse("DerivationError")

\* the path sent to the custody gateway by request r
PathOf(r) ==
    LET i == CHOOSE i \in 1..Len(log[r]) :
                 log[r][i].op \in {"snap_getBip32PublicKey", "snap_getBip32Entropy"}
    IN  log[r][i].arg.path

HasPath(r) ==
    CountIn(log[r], {"snap_getBip32PublicKey", "snap_getBip32Entropy"}) > 0

\* C22: the path a request sends to the custody gateway is m, 44', 1551'
\* followed by the hardened segment of the keyId of its parameters; two
\* requests, of either method, send the same path exactly when their keyIds
\* are equal.
C22_PathFromKeyIdAlone ==
    /\ \A r \in Reqs :
          HasPath(r) =>
              PathOf(r) = <<"m", "44'", "1551'", <<request[r].params.keyId.v, "'">> >>
    /\ \A r, q \in Reqs :
          (HasPath(r) /\ HasPath(q)) =>
              (PathOf(r) = PathOf(q)
                  <=> request[r].params.keyId = request[q].params.keyId)

C22_Witness ==
    \E r, q \in Reqs :
        /\ IsGetAddress(r) /\ HasPath(r) /\ request[r].params.keyId = Num(1)
        /\ IsSignTransaction(q) /\ HasPath(q) /\ request[q].params.keyId = Num(0)

\* a getAddress and a signTransaction request with the same keyId
C22_WitnessSameKeyId ==
    \E r, q \in Reqs :
        /\ IsGetAddress(r) /\ HasPath(r)
        /\ IsSignTransaction(q) /\ HasPath(q)
        /\ request[r].params.keyId = request[q].params.keyId

\* the argument of the one call of op in the log of request r
ArgOf(r, op) == log[r][CHOOSE i \in 1..Len(log[r]) : log[r][i].op = op].arg

SuspendedAtGate(r) ==
    /\ response[r] = NoResponse
    /\ log[r][Len(log[r])].op = "snap_dialog"
    /\ CountIn(log[r], EncoderOps \cup {"sign", "signedTransaction", "bytesToHex",
                                        "dealloc", "raise", "throw", "return"}) = 0

\* C24: while the answer of the dialog is pending the request is suspended:
\* it has encoded nothing, signed nothing, released nothing and answered
\* nothing, whatever the other requests do meanwhile; and when every await
\* settles, every request is in the end either one that never arrived or one
\* that has ended, with a result or an error.
C24_GateUnboundedAndRequestsEnd ==
    /\ [](\A r \in Reqs :
            /\ pc[r] = "awaitDialog" => SuspendedAtGate(r)
            /\ pc[r] = "done" => response[r] # NoResponse)
    /\ \A r \in Reqs : <>[](pc[r] \in {"idle", "done"})

\* a request waits at the gate while a signTransaction request has
\* returned
C24_Witness ==
    \E r, q \in Reqs :
        /\ pc[r] = "awaitDialog"
        /\ IsSignTransaction(q) /\ response[q].kind = "result"

\* the key the custody gateway holds for the path of request r, as it answers
\* it: 0x, the flag byte (two hex digits), the key
RawKeyOf(r) == RawPublicKey([path |-> PathOf(r)])

\* the raw key without its first four characters
KeyProper(raw) == [i \in 1..(Len(raw) - 4) |-> raw[i + 4]]

\* C25: every public key handed to the address encoder, and the pub_key of
\* every signed transaction, is the custody gateway's key for the request's
\* path without the 0x marker and the flag byte; the address shown in the
\* dialog and the address getAddress returns are the encodings of that key.
C25_OnlyNormalizedKeyUsed ==
    \A r \in Reqs :
        HasPath(r) =>
            LET raw == RawKeyOf(r)
                key == KeyProper(raw)
            IN  /\ SubSeq(raw, 1, 4) = <<"0", "x", "0", "0">>
                /\ \A i \in Positions(log[r], "bechEncodePublicKey") :
                      /\ log[r][i].arg = key
                      /\ Len(log[r][i].arg) = Len(raw) - 4
                /\ \A i \in Positions(log[r], "snap_dialog") :
                      log[r][i].arg.address = bechEncodePublicKey(key)
                /\ \A i \in Positions(log[r], "serializeTransaction") :
                      log[r][i].arg.pub_key = key
                /\ (IsGetAddress(r) /\ response[r].kind = "result") =>
                      response[r].value = bechEncodePublicKey(key)

C25_Witness ==
    \E r, q \in Reqs :
        /\ IsGetAddress(r) /\ response[r].kind = "result"
        /\ IsSignTransaction(q) /\ response[q].kind = "result"
        /\ Count(log[q], "snap_dialog") = 1

\* a required field of envelope t is of the wrong type
Mistyped(t) ==
    \/ "call" \in DOMAIN t /\ t.call.t # "object"
    \/ \E k \in NumericKeys : k \in DOMAIN t /\ t[k].t # "number"

\* request r made no custody call, no codec call, no dialog request and no
\* call of the signer
NoEffect(r) ==
    CountIn(log[r], CustodyOps \cup CodecOps \cup {"snap_dialog", "sign", "dealloc"}) = 0

HasUnknownProperty(r) ==
    \/ ~(DOMAIN request[r].params \subseteq
             IF IsGetAddress(r) THEN {"keyId"} ELSE {"keyId", "transaction"})
    \/ /\ IsSignTransaction(r)
       /\ "transaction" \in DOMAIN request[r].params
       /\ ~(DOMAIN request[r].params.transaction \subseteq TransactionKeys)

\* C27: a getAddress request whose parameters carry a numeric keyId and an
\* unknown property passes validation and goes on to the custody call; a
\* signTransaction request whose parameters or envelope carry an unknown
\* property ends with ValidationError and no effect.
C27_UnknownProperties ==
    \A r \in Reqs :
        /\ ( /\ IsGetAddress(r) /\ HasUnknownProperty(r)
             /\ "keyId" \in DOMAIN request[r].params
             /\ IsNumber(request[r].params.keyId) ) =>
               /\ response[r].error # "ValidationError"
               /\ Count(log[r], "snap_getBip32PublicKey") = 1
               /\ PathOf(r) = getKeypairParams(request[r].params.keyId.v).path
        /\ (IsSignTransaction(r) /\ HasUnknownProperty(r)) =>
               /\ pc[r] = "done"
               /\ response[r] = ErrorResponse("ValidationError")
               /\ NoEffect(r)

C27_Witness ==
    \E r, q \in Reqs :
        /\ IsGetAddress(r) /\ HasUnknownProperty(r)
        /\ response[r].kind = "result"
        /\ IsSignTransaction(q) /\ HasUnknownProperty(q)
        /\ response[q] = ErrorResponse("ValidationError")

\* what a getAddress request never invokes
SigningOnlyOps ==
    EncoderOps \cup {"snap_dialog", "snap_getBip32Entropy", "SLIP10Node.fromJSON",
                     "sign", "signedTransaction", "bytesToHex"}

\* C28: a getAddress request shows no dialog, asks for no key-pair entropy and
\* invokes neither the call and transaction encoders nor the signer, and it
\* holds no private key; it asks for the public key at most once, encodes an
\* address at most once and releases at most once, and one that returned did
\* exactly these three, in this order.
C28_GetAddressFrame ==
    \A r \in Reqs :
        IsGetAddress(r) =>
            /\ CountIn(log[r], SigningOnlyOps) = 0
            /\ DOMAIN loc[r] \cap {"entropy", "node", "privateKey"} = {}
            /\ \A op \in {"snap_getBip32PublicKey", "bechEncodePublicKey", "dealloc"} :
                  Count(log[r], op) <= 1
            /\ response[r].kind = "result" =>
                  Ops(log[r]) = <<"validate", "getKeypairParams",
                                  "snap_getBip32PublicKey", "bechEncodePublicKey",
                                  "dealloc", "return">>

C28_Witness ==
    \E r, q \in Reqs :
        /\ IsGetAddress(r) /\ response[r].kind = "result"
        /\ IsGetAddress(q) /\ response[q].error = "EncodingError"

\* dialog content d renders call c and the fields of unsigned transaction u
Rendered(d, c, u) ==
    /\ d.call = ToText(c)
    /\ d.nonce = ToText(u.nonce)
    /\ d.chainId = ToText(u.chain_id)
    /\ d.maxPriorityFeeBips = ToText(u.max_priority_fee_bips)
    /\ d.maxFee = ToText(u.max_fee)
    /\ d.gasLimit = IF "gas_limit" \in DOMAIN u
                    THEN [text |-> "joined", items |-> u.gas_limit.v]
                    ELSE [text |-> "Not Set", items |-> <<>>]

\* C29: in every request that called the signer, the call, nonce, chain id,
\* max priority fee, max fee and gas limit shown in its dialog are those of
\* the call and the unsigned transaction it then encoded and signed, and the
\* address shown is the encoding of the key it places in pub_key, whatever
\* other requests did while the dialog was open.
C29_SignsWhatWasShown ==
    \A r \in Reqs :
        Count(log[r], "sign") > 0 =>
            LET d == ArgOf(r, "snap_dialog")
                c == ArgOf(r, "serializeCall")
                u == ArgOf(r, "serializeUnsignedTransaction")
            IN  /\ Rendered(d, c, u)
                /\ u.runtime_msg = serializeCall(c)
                /\ ArgOf(r, "sign").message = serializeUnsignedTransaction(u)
                /\ \A i \in Positions(log[r], "serializeTransaction") :
                      /\ d.address = bechEncodePublicKey(log[r][i].arg.pub_key)
                      /\ omitKey("pub_key", omitKey("signature", log[r][i].arg)) = u

\* two requests with different envelopes have both signed
C29_Witness ==
    \E r, q \in Reqs :
        /\ Count(log[r], "serializeTransaction") = 1
        /\ Count(log[q], "sign") = 1
        /\ loc[r].transaction # loc[q].transaction

\* C30: the address a getAddress request returned and the sender address in
\* the dialog of a signTransaction request with the same keyId are equal: the
\* key of the public-key request and the key of the key-pair node go through
\* the same normalisation and the same encoder.
C30_DialogAddressIsGetAddress ==
    \A r, q \in Reqs :
        ( /\ IsGetAddress(r) /\ response[r].kind = "result"
          /\ IsSignTransaction(q) /\ Count(log[q], "snap_dialog") > 0
          /\ request[r].params.keyId = request[q].params.keyId ) =>
            ArgOf(q, "snap_dialog").address = response[r].value

C30_Witness ==
    \E r, q \in Reqs :
        /\ IsGetAddress(r) /\ response[r].kind = "result"
        /\ IsSignTransaction(q) /\ pc[q] = "awaitDialog"
        /\ request[r].params.keyId = request[q].params.keyId

\* the keys the handler computes itself
ComputedKeys == {"signature", "pub_key", "runtime_msg"}

\* C31: an envelope that carries signature, pub_key or runtime_msg fails
\* validation; so in every transaction handed to serializeTransaction the
\* signature is the one the signer produced in this request, pub_key is the
\* normalized key of this request and runtime_msg is the encoding of the
\* call of this request.
C31_ComputedKeysNotOverridden ==
    \A r \in Reqs :
        IsSignTransaction(r) =>
            /\ ( /\ "transaction" \in DOMAIN request[r].params
                 /\ DOMAIN request[r].params.transaction \cap ComputedKeys # {} ) =>
                   /\ response[r] = ErrorResponse("ValidationError")
                   /\ NoEffect(r)
            /\ "transaction" \in DOMAIN loc[r] =>
                   DOMAIN loc[r].transaction \cap ComputedKeys = {}
            /\ \A i \in Positions(log[r], "serializeTransaction") :
                   LET signed == log[r][i].arg
                       signCall == ArgOf(r, "sign")
                   IN  /\ signed.signature =
                              [msg_sig |-> sign(signCall.message, signCall.privateKey)]
                       /\ signed.pub_key = KeyProper(RawKeyOf(r))
                       /\ signed.runtime_msg = serializeCall(request[r].params.transaction.call)

C31_Witness ==
    \E r, q \in Reqs :
        /\ IsSignTransaction(r)
        /\ "pub_key" \in DOMAIN request[r].params.transaction
        /\ response[r] = ErrorResponse("ValidationError")
        /\ Count(log[q], "serializeTransaction") = 1

\* C32: with a release that may raise, no request calls wasm.dealloc() more
\* than once, and a request that computed its address or its hex string
\* answers with that value.
C32_ReleaseAttemptedOnce ==
    \A r \in Reqs :
        /\ Count(log[r], "dealloc") <= 1
        /\ (pc[r] = "done" /\ IsGetAddress(r) /\ "address" \in DOMAIN loc[r]) =>
              response[r] = ResultResponse(loc[r].address)
        /\ (pc[r] = "done" /\ IsSignTransaction(r) /\ "txHex" \in DOMAIN loc[r]) =>
              response[r] = ResultResponse(loc[r].txHex)

====
